---------------------------- MODULE Spec2Model ----------------------------
(***************************************************************************)
(* BiliOCR live translator: the three reconcilers, the translation         *)
(* dispatcher with its LLM/MT failover, the bounded pipeline between the   *)
(* recognizer, the translation worker and the UI tick, and the OCR gate.   *)
(*                                                                         *)
(* The specifications share one state space; each moves its own group of   *)
(* variables and leaves the others untouched:                              *)
(*   SpecDispatcher  TranslatorApp.translate + llm_reconnect_thread        *)
(*   SpecReconciler  StreamingReconciler.ingest / reset                    *)
(*   SpecIntake      ocr_thread / audio_transcription_thread with the OCR  *)
(*                   gate, the recent-source ring and the put on text_queue*)
(*   SpecPipeline    text_queue -> translation_thread -> translated_queue  *)
(*                   -> ui_update -> display stack                         *)
(*   SpecMerge       StreamingReconciler._merge_with_overlap and           *)
(*                   LLMReconciler._merge on every buffer and frame        *)
(*   SpecLlmReconciler    LLMReconciler.ingest / reset                     *)
(*   SpecAudioReconciler  AudioReconciler.ingest / reset                   *)
(*   SpecDisplay     ui_update's filter of similar translations and the    *)
(*                   display stack, for translations of any wording        *)
(*   SpecOverlay     ui_update's append and trim of the display stack next *)
(*                   to ocr_thread's _ocr_matches_overlay                  *)
(*   SpecStatus      _add_status_message on worker threads next to         *)
(*                   _get_active_status_messages on the UI thread          *)
(*   SpecRings       the two dedup rings over a long run of commits        *)
(*   SpecStableBuffer     StreamingReconciler's stable buffer over many    *)
(*                   commits                                               *)
(*   SpecHashGate    ocr_thread's frame-hash gate                          *)
(*   SpecCapture     capture_thread's overlap gate and the magnetic snap   *)
(*   SpecAccounting  translation_thread's word counter around translate    *)
(*   SpecSanity      _is_llm_output_sane on candidates of any token count  *)
(*   SpecSession     the session log: record, flush, settings, quit        *)
(*   SpecLife        the worker loops, request_quit and the process exit   *)
(*   SpecTts         TTSEngineSubprocess and its worker process            *)
(*   SpecNewestWins  the producers' put on a full text_queue against the   *)
(*                   translation worker's get                              *)
(*   SpecOcr         ocr_thread's text-region learning against the UI      *)
(*                   thread's reset                                        *)
(*   SpecDispatcherFair   SpecDispatcher with a fairly scheduled reconnect *)
(*                   thread and an LLM that answers the probe              *)
(* Worker steps are split at blocking calls (network requests, OCR, queue  *)
(* gets); the statements between two blocking calls form one step.         *)
(***************************************************************************)
EXTENDS Integers, Sequences, FiniteSets, TLC

(***************************************************************************)
(* Bounds of the model                                                     *)
(***************************************************************************)
\* number of distinct source strings handed to translate
NumSources == 2
\* largest configured llm_context_count explored
MaxCtx == 1

\* letters of the recognition frames (besides the blank)
NumLetters == 2
\* longest recognition frame
MaxLen == 2
\* last instant of the reconciler's clock, in ticks of 100 ms
MaxTime == 9
\* longest pause between two ingest calls, in ticks
MaxDt == 3
\* seconds in one tick of the pipeline's clock
TickSec == 5
\* last instant of the pipeline's clock, in ticks
MaxClock == 6
\* puts on text_queue in one behaviour
MaxPuts == 6
\* longest buffer and longest frame handed to the merge functions
MaxMerge == 3
\* longest buffer the LLM reconciler accumulates
MaxBuf == 4
\* most CJK characters, and most Latin tokens, in one audio transcript
MaxCjk == 4
MaxLatin == 3
\* last instant of the audio reconciler's clock, in ticks of 0.5 s
MaxAudioTime == 6
\* most transcripts of one phrase
MaxChecks == 5
\* most words in a translation offered to the display
MaxTextWords == 3
\* translations appended to the display stack in one behaviour
MaxShows == 2
\* translations appended to the display stack while its readers run
MaxAppends == 4
\* time of the last ingest call while the stable buffer fills, in ticks
MaxCommitTime == 20
\* sources committed while the dedup rings fill
MaxRingPuts == 23
\* the clock while the rings fill
MaxRingClock == 3
\* frame hashes, and the time of ocr_thread's last pass in ticks of 0.25 s
NumHashes == 2
MaxGateTime == 9
\* the overlay's placings: positions 0, 20, .. and sizes 25, 50, .. up to
\* GridMax steps
GridMax == 3
\* candidate translations of up to MaxTokens tokens
MaxTokens == 31
\* the session: units taken by the translation worker, those of them that
\* get no fresh translation, settings dialogs applied, seconds on the clock,
\* directories the log can be sent to
MaxUnits == 11
MaxSkips == 1
MaxApplies == 1
MaxSessClock == 1
NumDirs == 2
\* commits and clock ticks while text_queue fills up
MaxQueuePuts == 21
MaxQueueClock == 18
\* utterances passed to speak, and calls of stop
MaxUtter == 3
MaxStops == 2
MaxSwitchBack == 2
\* threads that call _add_status_message, and their calls
NumWriters == 2
MaxAdds == 8
\* the clock while status messages are added and swept
MaxStatusClock == 2

(***************************************************************************)
(* Dispatcher: values                                                      *)
(***************************************************************************)
Sources == 1..NumSources

\* len(source_text.strip()) of the modelled source strings: odd ones are
\* short subtitles ("学校"), even ones are long enough that 8*len > 2000
SrcLen(s) == IF s % 2 = 1 THEN 2 ELSE 300

\* A translation value is described by what the dispatcher looks at:
\* who produced it, its length in characters, its number of
\* whitespace-delimited tokens, the count of its most common token and the
\* number of CJK fragments left in it.
Val(by, chars, tokens, top, spans) ==
    [by |-> by, chars |-> chars, tokens |-> tokens, top |-> top, spans |-> spans]

NoEntry == Val("NoEntry", 0, 0, 0, 0)
\* provider returned None (no API key, unexpected response format)
NoneVal == Val("None", 0, 0, 0, 0)
\* provider returned "" (content was only whitespace)
EmptyStr == Val("LLM", 0, 0, 0, 0)

\* answers an LLM provider can give
LlmGood == Val("LLM", 12, 3, 1, 0)
\* "na na na ... na" (16 tokens, all equal)
LlmRepetitive == Val("LLM", 47, 16, 16, 0)
\* 2100 characters: too long for a short source, fine for a long one
LlmLong == Val("LLM", 2100, 9, 1, 0)
\* source-language fragments left in the output, 7 of 9 tokens equal
LlmMixed == Val("LLM", 30, 9, 7, 8)
LlmOutputs == {NoneVal, EmptyStr, LlmGood, LlmRepetitive, LlmLong, LlmMixed}

NamesLarge == <<"DeepL", "Google", "Yandex", "LibreTranslate", "Caiyun", "Niutrans">>
NamesSmall == <<"DeepL", "Google", "Baidu", "Youdao", "Yandex", "LibreTranslate", "Caiyun", "Niutrans">>

MtVal(name) == Val(name, 10, 2, 1, 0)
Placeholder == Val("Translation Failed", 20, 3, 1, 0)

Truthy(r) == r.by \notin {"None", "NoEntry"} /\ r.chars > 0

Max2(a, b) == IF a >= b THEN a ELSE b

\* (variant: only fifteen repetitions count)
IsLlmOutputSane_FifteenOnly(r, s) ==
    /\ Truthy(r)
    /\ ~(SrcLen(s) > 0 /\ r.chars > Max2(2000, SrcLen(s) * 8))
    /\ ~(r.tokens >= 10 /\ r.top >= 15)

\* _is_llm_output_sane: empty, too long, one token repeated
IsLlmOutputSane(r, s) ==
    /\ Truthy(r)
    /\ ~(SrcLen(s) > 0 /\ r.chars > Max2(2000, SrcLen(s) * 8))
    /\ ~(r.tokens >= 10 /\ (r.top >= 15 \/ (r.top >= 8 /\ r.top * 10 >= r.tokens * 3)))

\* _fix_mixed_llm_output: every CJK fragment is replaced by the MT
\* translation of that fragment when some MT provider answers; the output
\* is returned unchanged when there is no fragment, the target is not a
\* Latin-script language or no provider answers.  A replaced fragment adds
\* one token, which may or may not be the token that already dominates.
FixOutcomes(r) ==
    IF r.spans = 0 THEN {r}
    ELSE {r,
          Val("LLM", r.chars + r.spans, r.tokens + r.spans, r.top, 0),
          Val("LLM", r.chars + r.spans, r.tokens + r.spans, r.top + r.spans, 0)}

VARIABLES
    \* ---- dispatcher (TranslatorApp) ----
    use_large_model,
    llm_context_count,
    translation_cache,            \* _translation_cache
    using_mt_fallback,            \* _using_mt_fallback
    mt_fallback_message_shown,    \* _mt_fallback_message_shown
    llm_context_sources,          \* _llm_context_sources
    current_display_name,         \* _current_display_name
    tr_pc,                        \* where the translate call stands
    tr_text,                      \* its argument
    tr_result,                    \* its local 'result'
    tr_i,                         \* index into the MT provider list
    hc_pc,                        \* llm_reconnect_thread: "sleep" | "probe"
    \* ---- dispatcher: history ----
    tr_ret,                       \* value returned by the last finished call
    tr_llm,                       \* fate of the LLM request of the current/last call
    tr_recovered,                 \* a probe succeeded while the current call ran
    switch_back_shown,            \* "switching back" messages since the last LLM exception
    tr_llm_given,                 \* answers the LLM gave to the current/last call
    tr_hit,                       \* the last call was answered from the cache
    provider_calls,               \* calls per source that invoked a provider
    ctx_passed,                   \* context length handed to the last LLM request
    switch_since_arm,             \* "switching to" messages since start / last LLM exception
    in_episode,                   \* MT chain answered and no LLM request was issued since
    tr_invoked,                   \* the current/last call invoked a provider
    tr_miss_in_fallback           \* the current/last call missed the cache while in MT fallback

dispVars == <<use_large_model, llm_context_count, translation_cache, using_mt_fallback,
              mt_fallback_message_shown, llm_context_sources, current_display_name,
              tr_pc, tr_text, tr_result, tr_i,
              hc_pc, tr_ret, tr_llm, tr_recovered, switch_back_shown, tr_llm_given, tr_hit, provider_calls,
              ctx_passed, switch_since_arm,
              in_episode, tr_invoked, tr_miss_in_fallback>>

VARIABLES
    \* ---- StreamingReconciler ----
    rec_now,                      \* time.time() at the last ingest call, in ticks
    stable_buffer,
    unstable_buffer,
    last_unstable,
    stability_start_time,         \* NoTime for None
    unstable_buffer_start_time,   \* NoTime for None
    \* ---- StreamingReconciler: history ----
    rec_ret,                      \* (should_translate, text) of the last ingest call
    run_text,                     \* frame of the current run of identical frames
    run_start,                    \* time of the first call of the run
    run_commits,                  \* calls of the run that returned a commit
    run_frames,                   \* calls of the run so far
    reveal_len                    \* frames of the progressive reveal since construction
                                  \* or reset (each extends the one before, the last
                                  \* may repeat); 0 before the first frame, NoReveal
                                  \* once the frames are no progressive reveal

recVars == <<rec_now, stable_buffer, unstable_buffer, last_unstable, stability_start_time,
             unstable_buffer_start_time, rec_ret, run_text, run_start, run_commits,
             run_frames, reveal_len>>

VARIABLES
    \* ---- pipeline (TranslatorApp threads) ----
    transcription_mode,           \* "ocr" | "audio"
    clock,                        \* time.time(), in ticks of TickSec seconds
    ocr_paused,                   \* _ocr_paused
    ocr_obstructed,               \* _ocr_obstructed
    recent_sources,               \* _recent_sources: <<source, time>> pairs
    text_queue,
    translated_queue,
    display_stack,                \* _display_stack
    recent_translations,          \* _recent_translations: <<text, time>> pairs
    src_pc,                       \* ocr_thread / audio_transcription_thread position
    src_item,                     \* source whose put found text_queue full
    tw_pc,                        \* translation_thread position
    tw_item,                      \* item the translation worker holds
    ui_pc,                        \* ui_update: "idle" | "drain"
    ui_skipped_part,              \* history: ui_update has skipped a translation that
                                  \* was a part of the one appended last, not the
                                  \* whole of it
    ui_collected,                 \* ui_update's local 'collected'
    \* ---- pipeline: history ----
    n_put,                        \* puts on text_queue so far; the n-th put carries id n
    put_gap,                      \* ticks between the last put and the previous put of the
                                  \* same source; NoTime if there was none
    last_put,                     \* per source: time of its last put on text_queue, or NoTime
    tq_last,                      \* id of the last item put on translated_queue
    st_last,                      \* id of the last item appended to display_stack
    in_order,                     \* no put on translated_queue and no append to the stack
                                  \* carried a smaller id than the one before it
    dropped,                      \* queues that have lost an item to a newest-wins put
    ingest_paused                 \* _ocr_paused at the last call of a reconciler's ingest

pipeVars == <<transcription_mode, clock, ocr_paused, ocr_obstructed, recent_sources,
              text_queue, translated_queue, display_stack, recent_translations,
              src_pc, src_item, tw_pc, tw_item, ui_pc, ui_skipped_part, ui_collected,
              n_put, put_gap, last_put, tq_last, st_last, in_order, dropped,
              ingest_paused>>

VARIABLES
    \* ---- the merge functions of the two OCR reconcilers ----
    mg_old,                       \* the buffer before the merge
    mg_new,                       \* the incoming frame
    mg_mt,                        \* StreamingReconciler._merge_with_overlap(old, new)
    mg_llm                        \* LLMReconciler._merge(new) with buffer = old

mergeVars == <<mg_old, mg_new, mg_mt, mg_llm>>

VARIABLES
    \* ---- LLMReconciler ----
    llm_now,                      \* time.time() at the last ingest call, in ticks
    llm_buffer,                   \* buffer
    llm_last_frame,               \* last_frame
    llm_stability_start,          \* stability_start, NoTime for None
    llm_buffer_start_time,        \* buffer_start_time, NoTime for None
    \* ---- LLMReconciler: history ----
    llm_ret,                      \* (should_translate, text) of the last ingest call
    llm_call                      \* what the last ingest call saw

llmVars == <<llm_now, llm_buffer, llm_last_frame, llm_stability_start,
             llm_buffer_start_time, llm_ret, llm_call>>

VARIABLES
    \* ---- AudioReconciler ----
    au_now,                       \* time.time() at the last ingest call, in ticks
    au_buffer,                    \* buffer
    au_period_start,              \* period_start, NoTime for None
    au_check_count,               \* check_count
    \* ---- AudioReconciler: history ----
    au_ret,                       \* (should_send, text_to_send, is_final) of the last call
    au_call,                      \* the transcript of the last ingest call
    au_phrase_start,              \* time of the first transcript since the last send
                                  \* or reset, NoTime if there was none
    au_phrase_checks              \* transcripts since the last send or reset

audioVars == <<au_now, au_buffer, au_period_start, au_check_count, au_ret, au_call,
               au_phrase_start, au_phrase_checks>>

VARIABLES
    \* ---- readers of the display stack ----
    echo_seen,                    \* history: entries of _display_stack that the last
                                  \* _ocr_matches_overlay joined
    overlay_lines,                \* history: lines of the last overlay.update_text
    ui_now                        \* ui_update's local 'now' of the loop over the items

ovVars == <<echo_seen, overlay_lines, ui_now>>

VARIABLES
    \* ---- status messages ----
    status_messages,              \* _status_messages: the expiry times of the entries
    add_pc,                       \* per calling thread: position in _add_status_message
    n_added,                      \* history: calls of _add_status_message so far
    sweep_pc,                     \* ui_update: position in _get_active_status_messages
    sweep_now,                    \* local 'now' of _get_active_status_messages
    sweep_kept,                   \* the list its comprehension has built
    delivered_len,                \* history: entries of the last list passed to
                                  \* overlay.set_status_messages
    delivered_expired             \* history: that list held an entry with exp <= now

VARIABLES
    \* ---- ocr_thread's change detection ----
    hg_now,                       \* time.time() at the last pass, in ticks of 0.25 s
    last_hash,                    \* last_hash, NoHash for None
    last_ocr_time,                \* _last_ocr_time
    hg_pass                       \* history: what the last pass of ocr_thread did

hashVars == <<hg_now, last_hash, last_ocr_time, hg_pass>>

VARIABLES
    \* ---- capture_thread's overlap gate ----
    cap_region,                   \* the region the gate uses (the text area when it is learned)
    overlay_rect,                 \* _overlay_rect
    allow_overlap,                \* allow_overlap
    snap_overlay_requested,       \* _snap_overlay_requested
    snap_animating,               \* _snap_animating
    snap_target,                  \* target_y of the running snap animation
    capture_queue,                \* frames on capture_queue (maxsize 1)
    cap_iter                      \* history: the last iteration of capture_thread

capVars == <<cap_region, overlay_rect, allow_overlap, snap_overlay_requested, snap_animating,
             snap_target, capture_queue, cap_iter>>

VARIABLES
    \* ---- translation_thread's accounting ----
    session_word_count_by_model,  \* _session_word_count_by_model
    wt_pc,                        \* translation_thread: "get" | "call"
    wt_text,                      \* its local 'text'
    was_cached,                   \* its local 'was_cached'
    acct_last                     \* history: the last item it finished

acctVars == <<session_word_count_by_model, wt_pc, wt_text, was_cached, acct_last>>

VARIABLES
    \* ---- calls of _is_llm_output_sane ----
    san_result,                   \* the candidate of the last call
    san_source,                   \* its source text
    san_verdict                   \* "unchecked" | "sane" | "rejected"

sanVars == <<san_result, san_source, san_verdict>>

VARIABLES
    \* ---- session log ----
    session_output_enabled,       \* session_output_enabled
    session_output_path,          \* session_output_path: the directory setting
    sess_path,                    \* _session_output_path
    session_output_buffer,        \* _session_output_buffer
    sess_files,                   \* the files on disk
    sess_now,                     \* datetime.now() in seconds
    sw_pc,                        \* translation_thread: "get" | "translated" | "dump"
    sw_unit,                      \* the unit it holds and what translate made of it
    sw_file,                      \* the file its flush has open
    quit_pc,                      \* request_quit: "run" | "dump" | "closing" | "exited"
    q_file,                       \* the file its flush has open
    n_units,                      \* history: units taken from text_queue
    n_skips,                      \* history: units answered from the cache or not at all
    n_applies,                    \* history: settings applied at run time
    sess_recorded,                \* history: every entry ever appended
    sess_expected,                \* history: units translated afresh, in commit order
    sess_first_path,              \* history: the path of the first flush
    sess_last_flush,              \* history: the last flush
    sess_disabled                 \* history: session output was off at some time

sessVars == <<session_output_enabled, session_output_path, sess_path, session_output_buffer,
              sess_files, sess_now, sw_pc, sw_unit, sw_file, quit_pc, q_file, n_units, n_skips,
              n_applies, sess_recorded, sess_expected, sess_first_path, sess_last_flush,
              sess_disabled>>

statusVars == <<status_messages, add_pc, n_added, sweep_pc, sweep_now, sweep_kept,
                delivered_len, delivered_expired>>

VARIABLES
    \* ---- worker threads and quit ----
    running,                      \* TranslatorApp.running
    lf_quit,                      \* main: "run" | "closing" | "exited"
    lf_pc                         \* per worker: "check" | "body" | "returned"

lifeVars == <<running, lf_quit, lf_pc>>

VARIABLES
    \* ---- TTSEngineSubprocess and its worker process ----
    tts_queue,                    \* _queue: the multiprocessing queue
    tts_alive,                    \* _process.is_alive()
    tts_pc,                       \* _tts_subprocess_worker: "get" | "speak" | "drain"
    tts_item,                     \* the item it holds
    n_speak,                      \* history: utterances enqueued
    n_stop,                       \* history: stop() calls that have returned
    n_stop_seen,                  \* history: stop markers the worker has taken
    tts_enq_stops,                \* history: per utterance, n_stop at its enqueue
    tts_started,                  \* history: backend.speak calls, with n_stop at the call
    tts_dropped                   \* history: utterances drained, with the marker's number

ttsVars == <<tts_queue, tts_alive, tts_pc, tts_item, n_speak, n_stop, n_stop_seen,
             tts_enq_stops, tts_started, tts_dropped>>

VARIABLES
    \* ---- ocr_thread's dynamic text region ----
    auto_detect_text_region,      \* auto_detect_text_region
    text_region,                  \* _text_region is not None
    text_region_readings,         \* _text_region_readings
    text_region_min_y,            \* len(_text_region_min_y), and of _text_region_max_y
    oc_pc,                        \* ocr_thread: "get" | "crop" | "process" | "count" |
                                  \* "estimate" | "dead"
    rs_pc                         \* _reset_mixed_content_tracking: "idle" | "readings" |
                                  \* "lists"

ocrVars == <<auto_detect_text_region, text_region, text_region_readings, text_region_min_y,
             oc_pc, rs_pc>>

\* the state of the worker threads and of the child processes
procVars == <<lifeVars, ttsVars, ocrVars>>

\* the state added by the overlay, the status bar, the capture gate and the
\* session log
panelVars == <<ovVars, statusVars, hashVars, capVars, acctVars, sanVars, sessVars>>

shellVars == <<ovVars, statusVars, hashVars, capVars, acctVars, sanVars, sessVars, procVars>>

\* the variables of the components above
coreVars == <<dispVars, recVars, pipeVars, mergeVars, llmVars, audioVars>>

vars == <<dispVars, recVars, pipeVars, mergeVars, llmVars, audioVars, shellVars>>

otherThanDispatcher == <<recVars, pipeVars, mergeVars, llmVars, audioVars, shellVars>>
otherThanReconciler == <<dispVars, pipeVars, mergeVars, llmVars, audioVars, shellVars>>
otherThanPipeline == <<dispVars, recVars, mergeVars, llmVars, audioVars, shellVars>>
otherThanMerge == <<dispVars, recVars, pipeVars, llmVars, audioVars, shellVars>>
otherThanLlmReconciler == <<dispVars, recVars, pipeVars, mergeVars, audioVars, shellVars>>
otherThanAudioReconciler == <<dispVars, recVars, pipeVars, mergeVars, llmVars, shellVars>>
\* the overlay specification moves pipeVars and ovVars
otherThanOverlay ==
    <<dispVars, recVars, mergeVars, llmVars, audioVars, statusVars, hashVars, capVars,
      acctVars, sanVars, sessVars, procVars>>
\* the status specification moves statusVars and the clock
otherThanStatus ==
    <<dispVars, recVars, mergeVars, llmVars, audioVars, ovVars, hashVars, capVars,
      acctVars, sanVars, sessVars, procVars>>
\* the change-detection specification moves hashVars and the OCR gate
otherThanHashGate ==
    <<dispVars, recVars, mergeVars, llmVars, audioVars, ovVars, statusVars, capVars,
      acctVars, sanVars, sessVars, procVars>>
\* the capture specification moves capVars
otherThanCapture ==
    <<coreVars, ovVars, statusVars, hashVars, acctVars, sanVars, sessVars, procVars>>
\* the accounting specification moves dispVars and acctVars
otherThanAccounting ==
    <<recVars, pipeVars, mergeVars, llmVars, audioVars, ovVars, statusVars, hashVars, capVars,
      sanVars, sessVars, procVars>>
\* the sanity specification moves sanVars
otherThanSanity ==
    <<coreVars, ovVars, statusVars, hashVars, capVars, acctVars, sessVars, procVars>>
\* the session specification moves sessVars
otherThanSession ==
    <<coreVars, ovVars, statusVars, hashVars, capVars, acctVars, sanVars, procVars>>
\* the lifecycle specification moves lifeVars
otherThanLife == <<coreVars, panelVars, ttsVars, ocrVars>>
\* the TTS specification moves ttsVars
otherThanTts == <<coreVars, panelVars, lifeVars, ocrVars>>
\* the text-region specification moves ocrVars
otherThanOcr == <<coreVars, panelVars, lifeVars, ttsVars>>


(***************************************************************************)
(* StreamingReconciler (streaming_reconciler.py)                           *)
(* Strings are sequences over Blank and the letters; positions in the      *)
(* helpers are 0-based and half-open, as Python slices.                    *)
(***************************************************************************)
Blank == 0
Letters == 1..NumLetters
\* recognized texts, and the frames that carry them: the texts themselves,
\* a one-letter text between blanks, a blank frame and an empty one
Texts == UNION {[1..n -> Letters] : n \in 1..MaxLen}
Frames == Texts \cup {<<Blank, c, Blank>> : c \in Letters} \cup {<<>>, <<Blank>>}

NoTime == 0 - 1
\* stability_threshold handed to StreamingReconciler by TranslatorApp
\* (ocr_mt_reconciler_stability, 0.2 s), in ticks of 100 ms
StabilityThreshold == 2
\* the literal 0.2 s of the early-commit branch, in ticks
EarlyStable == 2

Min2(a, b) == IF a <= b THEN a ELSE b

\* s[lo:hi]
Slice(s, lo, hi) == SubSeq(s, lo + 1, hi)

RECURSIVE LStrip(_)
LStrip(s) == IF s # <<>> /\ Head(s) = Blank THEN LStrip(Tail(s)) ELSE s

RECURSIVE RStrip(_)
RStrip(s) ==
    IF s # <<>> /\ s[Len(s)] = Blank THEN RStrip(SubSeq(s, 1, Len(s) - 1)) ELSE s

\* str.strip()
Strip(s) == LStrip(RStrip(s))

\* new.startswith(old)
StartsWith(new, old) == Len(old) <= Len(new) /\ Slice(new, 0, Len(old)) = old

\* old in new
Contains(new, old) ==
    \E j \in 0..(Len(new) - Len(old)) : Slice(new, j, j + Len(old)) = old

\* SequenceMatcher.find_longest_match(alo, ahi, blo, bhi) without junk: the
\* longest common block, the earliest in a among the longest, the earliest
\* in b among those; <<alo, blo, 0>> when there is none
FindLongestMatch(a, alo, ahi, b, blo, bhi) ==
    LET blocks == {c \in (alo..(ahi - 1)) \X (blo..(bhi - 1)) \X (1..(ahi - alo)) :
                      /\ c[1] + c[3] <= ahi
                      /\ c[2] + c[3] <= bhi
                      /\ Slice(a, c[1], c[1] + c[3]) = Slice(b, c[2], c[2] + c[3])}
        Before(c, d) == \/ c[3] > d[3]
                        \/ c[3] = d[3] /\ c[1] < d[1]
                        \/ c[3] = d[3] /\ c[1] = d[1] /\ c[2] <= d[2]
    IN  IF blocks = {} THEN <<alo, blo, 0>>
        ELSE CHOOSE c \in blocks : \A d \in blocks : Before(c, d)

\* sum of the sizes of SequenceMatcher.get_matching_blocks()
RECURSIVE MatchedChars(_, _, _, _, _, _)
MatchedChars(a, alo, ahi, b, blo, bhi) ==
    LET m == FindLongestMatch(a, alo, ahi, b, blo, bhi)
    IN  IF m[3] = 0 THEN 0
        ELSE m[3]
             + (IF alo < m[1] /\ blo < m[2]
                THEN MatchedChars(a, alo, m[1], b, blo, m[2]) ELSE 0)
             + (IF m[1] + m[3] < ahi /\ m[2] + m[3] < bhi
                THEN MatchedChars(a, m[1] + m[3], ahi, b, m[2] + m[3], bhi) ELSE 0)

\* SequenceMatcher(None, old, new).ratio() >= 0.5, ratio = 2*M / (|old|+|new|)
RatioAtLeastHalf(old, new) ==
    4 * MatchedChars(old, 0, Len(old), new, 0, Len(new)) >= Len(old) + Len(new)

\* largest i in [2, min(|old|, |new|, 20)] with old[-i:] == new[:i]; 0 if none
BoundaryOverlap(old, new) ==
    LET is == {i \in 2..Min2(Min2(Len(old), Len(new)), 20) :
                  Slice(old, Len(old) - i, Len(old)) = Slice(new, 0, i)}
    IN  IF is = {} THEN 0 ELSE CHOOSE i \in is : \A k \in is : k <= i

\* (variant: every frame is appended to the buffer)
MergeWithOverlap_Append(old, new) == old \o new

\* StreamingReconciler._merge_with_overlap
MergeWithOverlap(old, new) ==
    LET lo == Len(old)
        ln == Len(new)
        i == BoundaryOverlap(old, new)
        m == FindLongestMatch(old, 0, lo, new, 0, ln)
    IN  IF old = <<>> THEN new
        ELSE IF 6 * lo <= 10 * ln /\ 10 * ln <= 15 * lo /\ RatioAtLeastHalf(old, new) THEN new
        ELSE IF StartsWith(new, old) THEN new
        ELSE IF Contains(new, old) THEN new
        ELSE IF i > 0 THEN old \o Slice(new, i, ln)
        ELSE IF m[3] >= 2
             THEN IF m[1] + m[3] = lo THEN old \o Slice(new, m[2] + m[3], ln)
                  ELSE IF m[1] = 0 /\ m[2] = 0 THEN new
                  ELSE Slice(old, 0, m[1]) \o new
        ELSE IF 10 * ln > 7 * lo THEN new
        ELSE IF 10 * lo > 15 * ln THEN old
        ELSE new

\* LLMReconciler._merge: largest i in [2, min(|old|, |new|, 25)] with
\* old[-i:] == new[:i]; 0 if none
LlmBoundaryOverlap(old, new) ==
    LET is == {i \in 2..Min2(Min2(Len(old), Len(new)), 25) :
                  Slice(old, Len(old) - i, Len(old)) = Slice(new, 0, i)}
    IN  IF is = {} THEN 0 ELSE CHOOSE i \in is : \A k \in is : k <= i

\* (variant: the LLM reconciler merges as the MT reconciler does)
LlmMerge_AsMt(old, new) == MergeWithOverlap(old, new)

\* LLMReconciler._merge(new) with self.buffer = old
LlmMerge(old, new) ==
    LET lo == Len(old)
        ln == Len(new)
        i == LlmBoundaryOverlap(old, new)
        m == FindLongestMatch(old, 0, lo, new, 0, ln)
    IN  IF old = <<>> THEN new
        ELSE IF 6 * lo <= 10 * ln /\ 10 * ln <= 15 * lo /\ RatioAtLeastHalf(old, new) THEN new
        ELSE IF StartsWith(new, old) THEN new
        ELSE IF Contains(new, old) THEN new
        ELSE IF i > 0 THEN old \o Slice(new, i, ln)
        ELSE IF m[3] >= 2 /\ m[1] + m[3] = lo THEN old \o Slice(new, m[2] + m[3], ln)
        ELSE IF 10 * ln > 7 * lo THEN new
        ELSE old \o <<Blank>> \o new

\* one of the rules the two merge functions share decides the merge: empty
\* buffer, replacement by similarity, continuation, containment, boundary
\* overlap of 2..20 characters
SharedMergeRule(old, new) ==
    \/ old = <<>>
    \/ 6 * Len(old) <= 10 * Len(new) /\ 10 * Len(new) <= 15 * Len(old)
          /\ RatioAtLeastHalf(old, new)
    \/ StartsWith(new, old)
    \/ Contains(new, old)
    \/ BoundaryOverlap(old, new) > 0

\* buffers and frames handed to the merge functions
MergeTexts == {<<>>} \cup UNION {[1..n -> Letters] : n \in 1..MaxMerge}

\* the function has not been called
NotMerged == <<0 - 1>>

\* no merge has been asked for
IdleMerge ==
    /\ mg_old = <<>>
    /\ mg_new = <<>>
    /\ mg_mt = NotMerged
    /\ mg_llm = NotMerged

\* a buffer and a frame, before either reconciler merges them
InitMerge ==
    /\ mg_old \in MergeTexts
    /\ mg_new \in MergeTexts
    /\ mg_mt = NotMerged
    /\ mg_llm = NotMerged

\* StreamingReconciler._merge_with_overlap(old, new)
MergeMt ==
    /\ mg_mt = NotMerged
    /\ mg_mt' = MergeWithOverlap(mg_old, mg_new)
    /\ UNCHANGED <<mg_old, mg_new, mg_llm, otherThanMerge>>

\* LLMReconciler._merge(new) with buffer = old
MergeLlm ==
    /\ mg_llm = NotMerged
    /\ mg_llm' = LlmMerge(mg_old, mg_new)
    /\ UNCHANGED <<mg_old, mg_new, mg_mt, otherThanMerge>>

NextMerge ==
    \/ MergeMt
    \/ MergeLlm

(***************************************************************************)
(* LLMReconciler (streaming_reconciler.py); its clock is in ticks of 120 ms*)
(***************************************************************************)
\* stability_threshold handed to LLMReconciler by TranslatorApp
\* (ocr_llm_reconciler_stability, 0.12 s), in ticks of 120 ms
LlmStabilityThreshold == 1
\* max_buffer_time handed to LLMReconciler by TranslatorApp
\* (ocr_llm_reconciler_max_buffer, 0.6 s), in ticks of 120 ms
LlmMaxBufferTime == 5

\* (variant: the timeout sends a merged text of any length)
LongEnoughForTimeout_Any(merged) == merged # <<>>

\* merged and len(merged.strip()) >= 2
LongEnoughForTimeout(merged) == merged # <<>> /\ Len(Strip(merged)) >= 2

\* the last call was no call, or a call with a blank frame
NoCall == [called |-> FALSE, merged |-> <<>>, aged |-> FALSE, same |-> FALSE,
           stable |-> FALSE]

\* LLMReconciler.ingest(frame) at time now
LlmIngestResult(frame, now) ==
    LET new_text == Strip(frame)
        merged == LlmMerge(llm_buffer, new_text)
        bst == IF merged # <<>> /\ llm_buffer = <<>> THEN now ELSE llm_buffer_start_time
        ss == IF merged # llm_buffer THEN now ELSE llm_stability_start
        \* elapsed = now - (self.stability_start or now)
        elapsed == IF ss = NoTime THEN 0 ELSE now - ss
        stable == elapsed >= LlmStabilityThreshold /\ merged # <<>>
        aged == bst # NoTime /\ now - bst >= LlmMaxBufferTime
        timeout == LongEnoughForTimeout(merged) /\ aged /\ merged = new_text
        call == [called |-> TRUE, merged |-> merged, aged |-> aged,
                 same |-> merged = new_text, stable |-> stable]
    IN  IF new_text = <<>>
        THEN [buffer |-> llm_buffer, last |-> llm_last_frame, ss |-> llm_stability_start,
              bst |-> llm_buffer_start_time, commit |-> FALSE, text |-> <<>>,
              call |-> NoCall]
        ELSE IF stable
        THEN [buffer |-> <<>>, last |-> new_text, ss |-> NoTime, bst |-> NoTime,
              commit |-> TRUE, text |-> Strip(merged), call |-> call]
        ELSE IF timeout
        THEN [buffer |-> <<>>, last |-> new_text, ss |-> ss, bst |-> NoTime,
              commit |-> TRUE, text |-> Strip(merged), call |-> call]
        ELSE [buffer |-> merged, last |-> new_text, ss |-> ss, bst |-> bst,
              commit |-> FALSE, text |-> <<>>, call |-> call]

\* LLMReconciler.__init__
InitLlmReconciler ==
    /\ llm_now = 1
    /\ llm_buffer = <<>>
    /\ llm_last_frame = <<>>
    /\ llm_stability_start = NoTime
    /\ llm_buffer_start_time = NoTime
    /\ llm_ret = <<FALSE, <<>>>>
    /\ llm_call = NoCall

\* llm_reconciler.ingest(frame), dt ticks after the previous call
LlmIngest(frame, dt) ==
    /\ llm_now + dt <= MaxTime
    /\ \E r \in {LlmIngestResult(frame, llm_now + dt)} :
          /\ Len(r.buffer) <= MaxBuf
          /\ llm_now' = llm_now + dt
          /\ llm_buffer' = r.buffer
          /\ llm_last_frame' = r.last
          /\ llm_stability_start' = r.ss
          /\ llm_buffer_start_time' = r.bst
          /\ llm_ret' = <<r.commit, r.text>>
          /\ llm_call' = r.call
    /\ UNCHANGED otherThanLlmReconciler

\* llm_reconciler.reset(): buffer_start_time is left as it is
LlmReset ==
    /\ llm_buffer' = <<>>
    /\ llm_last_frame' = <<>>
    /\ llm_stability_start' = NoTime
    /\ llm_ret' = <<FALSE, <<>>>>
    /\ llm_call' = NoCall
    /\ UNCHANGED <<llm_now, llm_buffer_start_time, otherThanLlmReconciler>>

NextLlmReconciler ==
    \/ \E frame \in Frames, dt \in 0..MaxDt : LlmIngest(frame, dt)
    \/ LlmReset

(***************************************************************************)
(* AudioReconciler (streaming_reconciler.py); its clock is in ticks of     *)
(* 0.5 s.  A transcript is described by what ingest looks at: whether it   *)
(* is blank, its CJK characters, its Latin tokens and its last character.  *)
(***************************************************************************)
\* period_sec handed to AudioReconciler by TranslatorApp (2.0 s), in ticks
AudioPeriod == 4
\* num_checks handed to AudioReconciler by TranslatorApp
NumChecks == 4
\* min_words handed to AudioReconciler by TranslatorApp
MinWords == 7

\* AudioReconciler.SENTENCE_ENDINGS
\* (the fullwidth ones are written fw. fw! fw?)
SentenceEndings == {".", "!", "?", "fw.", "fw!", "fw?"}

\* last characters of the transcripts: a letter and two of the endings
LastChars == {"x", ".", "fw."}

\* "" and whitespace-only transcripts
BlankTranscript == [cjk |-> 0, latin |-> 0, last |-> " "]

Transcripts ==
    [cjk : 0..MaxCjk, latin : 0..MaxLatin, last : LastChars] \cup {BlankTranscript}

\* _count_words: CJK characters plus Latin tokens
CountWords(text) == text.cjk + text.latin

\* (variant: every transcript has words enough)
EnoughWords_Always(text) == TRUE

\* not (word_count < self.min_words)
EnoughWords(text) == CountWords(text) >= MinWords

\* (variant: a sentence end is not looked for)
IsSentenceComplete_Never(text) == FALSE

\* _is_sentence_complete
IsSentenceComplete(text) == text # BlankTranscript /\ text.last \in SentenceEndings

\* (variant: only the elapsed time ends the period)
PeriodOver_ElapsedOnly(elapsed, checks) == elapsed >= AudioPeriod

\* elapsed >= self.period_sec or self.check_count >= self.num_checks
PeriodOver(elapsed, checks) == elapsed >= AudioPeriod \/ checks >= NumChecks

NoTranscript == [called |-> FALSE, text |-> BlankTranscript, elapsed |-> 0, checks |-> 0]

\* AudioReconciler.__init__
InitAudioReconciler ==
    /\ au_now = 1
    /\ au_buffer = BlankTranscript
    /\ au_period_start = NoTime
    /\ au_check_count = 0
    /\ au_ret = <<FALSE, BlankTranscript, TRUE>>
    /\ au_call = NoTranscript
    /\ au_phrase_start = NoTime
    /\ au_phrase_checks = 0

\* AudioReconciler.ingest(text), dt ticks after the previous call
AudioIngest(text, dt) ==
    LET now == au_now + dt
        ps == IF au_period_start = NoTime THEN now ELSE au_period_start
        checks == au_check_count + 1
        elapsed == now - ps
        send == /\ EnoughWords(text)
                /\ IsSentenceComplete(text) \/ PeriodOver(elapsed, checks)
        \* history
        first == IF au_phrase_start = NoTime THEN now ELSE au_phrase_start
    IN  /\ now <= MaxAudioTime
        /\ checks <= MaxChecks
        /\ au_now' = now
        /\ IF text = BlankTranscript
           THEN /\ au_ret' = <<FALSE, BlankTranscript, TRUE>>
                /\ au_call' = NoTranscript
                /\ UNCHANGED <<au_buffer, au_period_start, au_check_count,
                               au_phrase_start, au_phrase_checks>>
           ELSE /\ au_call' = [called |-> TRUE, text |-> text,
                               elapsed |-> now - first, checks |-> au_phrase_checks + 1]
                /\ IF send
                   THEN \* out = self.buffer; self._reset()
                        /\ au_buffer' = BlankTranscript
                        /\ au_period_start' = NoTime
                        /\ au_check_count' = 0
                        /\ au_ret' = <<TRUE, text, TRUE>>
                        /\ au_phrase_start' = NoTime
                        /\ au_phrase_checks' = 0
                   ELSE /\ au_buffer' = text
                        /\ au_period_start' = ps
                        /\ au_check_count' = checks
                        /\ au_ret' = <<FALSE, BlankTranscript, TRUE>>
                        /\ au_phrase_start' = first
                        /\ au_phrase_checks' = au_phrase_checks + 1
        /\ UNCHANGED otherThanAudioReconciler

\* AudioReconciler.reset()
AudioReset ==
    /\ au_buffer' = BlankTranscript
    /\ au_period_start' = NoTime
    /\ au_check_count' = 0
    /\ au_ret' = <<FALSE, BlankTranscript, TRUE>>
    /\ au_call' = NoTranscript
    /\ au_phrase_start' = NoTime
    /\ au_phrase_checks' = 0
    /\ UNCHANGED <<au_now, otherThanAudioReconciler>>

NextAudioReconciler ==
    \/ \E text \in Transcripts, dt \in 0..MaxDt : AudioIngest(text, dt)
    \/ AudioReset

\* len(self.stable_buffer) > 5
StableCap == 5

\* (variant: the stable buffer is not cut)
CommitAppend_Uncut(stable, buf) == Append(stable, buf)

\* stable_buffer after _commit_unstable moved buf into it: keep the last 5
CommitAppend(stable, buf) ==
    LET s == Append(stable, buf)
    IN  IF Len(s) > StableCap THEN Tail(s) ELSE s

\* elapsed_stable >= self.stability_threshold
StableLongEnough(elapsed) == elapsed >= StabilityThreshold

\* One call of ingest at time now, as a record of the new object state and
\* the returned (should_translate, text).
\* the timeout of ingest: time_in_buffer >= max_wait_time, twice the threshold
InBufferLongEnough_Thrice(time_in_buffer) == time_in_buffer >= 3 * StabilityThreshold

InBufferLongEnough(time_in_buffer) == time_in_buffer >= 2 * StabilityThreshold

IngestResult(frame, now) ==
    LET new_text == Strip(frame)
        same == new_text = last_unstable
        \* case 1: the stability clock
        sst1 == IF same /\ stability_start_time = NoTime THEN now
                ELSE stability_start_time
        commit1 == same /\ StableLongEnough(now - sst1)
        \* case 2: the frame changed
        merged == MergeWithOverlap(unstable_buffer, new_text)
        ub2 == IF same THEN unstable_buffer ELSE merged
        sst2 == IF same THEN sst1 ELSE NoTime
        ubst2 == IF ~same /\ unstable_buffer = <<>> /\ merged # <<>> THEN now
                 ELSE unstable_buffer_start_time
        timeout == /\ ub2 # <<>>
                   /\ ubst2 # NoTime
                   /\ InBufferLongEnough(now - ubst2)
        early == /\ ub2 # <<>>
                 /\ sst2 # NoTime
                 /\ now - sst2 >= EarlyStable
                 /\ Len(ub2) >= 6
                 /\ now - sst2 >= StabilityThreshold
        keep == [stable |-> stable_buffer, unstable |-> unstable_buffer,
                 last |-> last_unstable, sst |-> stability_start_time,
                 ubst |-> unstable_buffer_start_time, commit |-> FALSE, text |-> <<>>]
    IN  IF new_text = <<>> THEN keep
        ELSE IF commit1
        THEN \* unstable_buffer := new_text; _commit_unstable(); return
             [stable |-> CommitAppend(stable_buffer, new_text), unstable |-> <<>>,
              last |-> last_unstable, sst |-> NoTime, ubst |-> NoTime,
              commit |-> TRUE, text |-> new_text]
        ELSE IF timeout \/ early
        THEN [stable |-> CommitAppend(stable_buffer, ub2), unstable |-> <<>>,
              last |-> new_text, sst |-> NoTime, ubst |-> NoTime,
              commit |-> TRUE, text |-> ub2]
        ELSE [stable |-> stable_buffer, unstable |-> ub2, last |-> new_text,
              sst |-> sst2, ubst |-> ubst2, commit |-> FALSE, text |-> <<>>]

InitReconciler ==
    /\ rec_now = 1
    /\ stable_buffer = <<>>
    /\ unstable_buffer = <<>>
    /\ last_unstable = <<>>
    /\ stability_start_time = NoTime
    /\ unstable_buffer_start_time = NoTime
    /\ rec_ret = <<FALSE, <<>>>>
    /\ run_text = <<>>
    /\ run_start = 1
    /\ run_commits = 0
    /\ run_frames = 0
    /\ reveal_len = 0

NoReveal == 0 - 1

\* history: the length of the progressive reveal after one more frame
RevealAfter(frame) ==
    IF reveal_len = NoReveal THEN NoReveal
    ELSE IF reveal_len = 0
    THEN (IF Strip(frame) = <<>> THEN 0
          ELSE IF frame \in Texts THEN 1 ELSE NoReveal)
    ELSE IF frame = run_text THEN reveal_len
    ELSE IF run_frames = 1 /\ frame \in Texts /\ StartsWith(frame, run_text)
    THEN reveal_len + 1
    ELSE NoReveal

\* reconciler.ingest(frame), dt ticks after the previous call and not later
\* than limit
IngestWithin(frame, dt, limit) ==
    /\ rec_now + dt <= limit
    /\ \E r \in {IngestResult(frame, rec_now + dt)} :
       LET now == rec_now + dt
           c == IF r.commit THEN 1 ELSE 0
       IN  /\ rec_now' = now
           /\ stable_buffer' = r.stable
           /\ unstable_buffer' = r.unstable
           /\ last_unstable' = r.last
           /\ stability_start_time' = r.sst
           /\ unstable_buffer_start_time' = r.ubst
           /\ rec_ret' = <<r.commit, r.text>>
           /\ IF frame = run_text
              THEN /\ run_commits' = run_commits + c
                   /\ UNCHANGED <<run_text, run_start>>
              ELSE /\ run_text' = frame
                   /\ run_start' = now
                   /\ run_commits' = c
           /\ run_frames' = IF frame = run_text THEN run_frames + 1 ELSE 1
           /\ reveal_len' = RevealAfter(frame)
    /\ UNCHANGED otherThanReconciler

\* reconciler.ingest(frame), dt ticks after the previous call
Ingest(frame, dt) == IngestWithin(frame, dt, MaxTime)

\* reconciler.reset()
ResetReconciler ==
    /\ stable_buffer' = <<>>
    /\ unstable_buffer' = <<>>
    /\ last_unstable' = <<>>
    /\ stability_start_time' = NoTime
    /\ unstable_buffer_start_time' = NoTime
    /\ rec_ret' = <<FALSE, <<>>>>
    /\ run_text' = <<>>
    /\ run_start' = rec_now
    /\ run_commits' = 0
    /\ run_frames' = 0
    /\ reveal_len' = 0
    /\ UNCHANGED <<rec_now, otherThanReconciler>>

\* the frames of one subtitle that stays on screen: blank frames and the
\* same character with or without blanks around it
SteadyFrames == {f \in Frames : Strip(f) \in {<<>>, <<1>>}}

\* reconciler.ingest(frame) with the frames of a slowly changing subtitle,
\* over a time long enough for the stable buffer to fill
IngestSteady(frame, dt) == IngestWithin(frame, dt, MaxCommitTime)

NextStableBuffer ==
    \/ \E frame \in SteadyFrames, dt \in 1..MaxDt : IngestSteady(frame, dt)
    \/ ResetReconciler

NextReconciler ==
    \/ \E frame \in Frames, dt \in 1..MaxDt : Ingest(frame, dt)
    \/ ResetReconciler

(***************************************************************************)
(* Dispatcher: helpers                                                     *)
(***************************************************************************)
\* seq[-n:] of Python for n > 0
LastN(seq, n) ==
    IF Len(seq) <= n THEN seq ELSE SubSeq(seq, Len(seq) - n + 1, Len(seq))

\* context = _llm_context_sources[-llm_context_count:] if ... else None
ContextFor(ctx, n) == IF Len(ctx) > 0 /\ n > 0 THEN LastN(ctx, n) ELSE <<>>

\* append (text, result); if len > llm_context_count: keep [-llm_context_count:]
\* (Python's seq[-0:] is the whole list)
ContextAppend(ctx, s, r, n) ==
    LET c == Append(ctx, <<s, r>>)
    IN  IF Len(c) > n THEN (IF n = 0 THEN c ELSE LastN(c, n)) ELSE c

\* (variant: the LLM is asked whatever the fallback flag says)
LlmRouteOpen_Always == TRUE

\* the guard that opens the LLM route in translate
LlmRouteOpen == ~using_mt_fallback

\* (variant: the except-branch forgets to set the flag)
FallbackAfterLlmException_Forgotten == using_mt_fallback

\* the except-branch of translate: enter MT fallback
FallbackAfterLlmException == TRUE

\* (variant: the repaired output is trusted without a second check)
SaneAfterFix_Skipped(r, s) == TRUE

\* second sanity check, on the repaired output
SaneAfterFix(r, s) == IsLlmOutputSane(r, s)

\* (variant: the placeholder is returned but not cached)
CacheAfterFailure_NotStored(s) == translation_cache

\* the final lines of translate: cache the placeholder
CacheAfterFailure(s) == [translation_cache EXCEPT ![s] = Placeholder]

\* (variant: the probe is sent every 30 s in large-model mode)
HealthCheckDue_EachWake == use_large_model
HealthCheckDue_SmallModelOnly == ~use_large_model /\ using_mt_fallback

\* llm_reconnect_thread: probe only in large-model mode and in MT fallback
HealthCheckDue == use_large_model /\ using_mt_fallback

\* llm_reconnect_thread leaves _mt_fallback_message_shown as it is
ShownAfterReconnect == mt_fallback_message_shown

MtNames == IF use_large_model THEN NamesLarge ELSE NamesSmall

InitDispatcher ==
    /\ use_large_model \in BOOLEAN
    /\ llm_context_count \in 0..MaxCtx
    /\ translation_cache = [s \in Sources |-> NoEntry]
    /\ using_mt_fallback = FALSE
    /\ mt_fallback_message_shown = FALSE
    /\ llm_context_sources = <<>>
    /\ current_display_name = ""
    /\ tr_pc = "idle"
    /\ tr_text = 1
    /\ tr_result = NoneVal
    /\ tr_i = 1
    /\ hc_pc = "sleep"
    /\ tr_ret = NoEntry
    /\ tr_llm = "none"
    /\ tr_recovered = FALSE
    /\ switch_back_shown = 0
    /\ tr_llm_given = {}
    /\ tr_hit = FALSE
    /\ provider_calls = [s \in Sources |-> 0]
    /\ ctx_passed = 0
    /\ switch_since_arm = 0
    /\ in_episode = FALSE
    /\ tr_invoked = FALSE
    /\ tr_miss_in_fallback = FALSE

(***************************************************************************)
(* Dispatcher: TranslatorApp.translate                                     *)
(***************************************************************************)
hcOnly == <<hc_pc, tr_recovered, switch_back_shown>>
cfgVars == <<use_large_model, llm_context_count>>
armVars == <<switch_since_arm>>

\* translate(s) up to its first blocking call: cache lookup, then the
\* LLM request, or the first MT provider
TranslateCall(s) ==
    /\ UNCHANGED otherThanDispatcher
    /\ tr_pc = "idle"
    /\ tr_hit' = (translation_cache[s] # NoEntry)
    /\ tr_text' = s
    /\ tr_recovered' = FALSE
    /\ tr_llm_given' = {}
    /\ IF translation_cache[s] # NoEntry
       THEN /\ tr_ret' = translation_cache[s]
            /\ tr_llm' = "none"
            /\ tr_invoked' = FALSE
            /\ tr_miss_in_fallback' = FALSE
            /\ UNCHANGED <<tr_pc, tr_result, tr_i, provider_calls, ctx_passed, in_episode>>
       ELSE /\ tr_invoked' = TRUE
            /\ provider_calls' = [provider_calls EXCEPT ![s] = @ + 1]
            /\ tr_result' = NoneVal
            /\ tr_i' = 1
            /\ UNCHANGED tr_ret
            /\ IF use_large_model /\ LlmRouteOpen
               THEN /\ tr_pc' = "llm"
                    /\ tr_llm' = "pending"
                    /\ ctx_passed' = Len(ContextFor(llm_context_sources, llm_context_count))
                    /\ in_episode' = FALSE
                    /\ tr_miss_in_fallback' = using_mt_fallback
               ELSE /\ tr_pc' = "mt"
                    /\ tr_llm' = "none"
                    /\ tr_miss_in_fallback' = (use_large_model /\ using_mt_fallback)
                    /\ UNCHANGED <<ctx_passed, in_episode>>
    /\ UNCHANGED <<cfgVars, translation_cache, using_mt_fallback, mt_fallback_message_shown,
                   llm_context_sources, current_display_name, hc_pc, switch_back_shown,
                   armVars>>

\* the tail of translate: every provider failed
FailTail ==
    /\ translation_cache' = CacheAfterFailure(tr_text)
    /\ tr_ret' = Placeholder
    /\ tr_pc' = "idle"

\* the LLM request raises (timeout, HTTP error): except-branch, then on to MT
LlmRaise ==
    /\ UNCHANGED otherThanDispatcher
    /\ tr_pc = "llm"
    /\ using_mt_fallback' = FallbackAfterLlmException
    /\ mt_fallback_message_shown' = FALSE
    /\ tr_llm' = "exception"
    /\ tr_pc' = "mt"
    /\ tr_i' = 1
    /\ tr_result' = NoneVal
    /\ switch_since_arm' = 0
    /\ switch_back_shown' = 0
    /\ UNCHANGED <<cfgVars, translation_cache, llm_context_sources, current_display_name,
                   tr_text, hc_pc, tr_recovered, tr_ret, tr_llm_given, tr_hit, provider_calls, ctx_passed,
                   in_episode, tr_invoked, tr_miss_in_fallback>>

\* the LLM request returns o: first sanity check
LlmReturn(o) ==
    /\ UNCHANGED otherThanDispatcher
    /\ tr_pc = "llm"
    /\ tr_llm_given' = {o}
    /\ IF ~Truthy(o)
       THEN /\ tr_llm' = "empty"
            /\ tr_result' = o
            /\ IF o = NoneVal
               THEN /\ tr_pc' = "mt"
                    /\ tr_i' = 1
                    /\ UNCHANGED <<translation_cache, tr_ret>>
               ELSE \* "" is not None: the MT chain is skipped
                    /\ FailTail
                    /\ UNCHANGED tr_i
       ELSE IF ~IsLlmOutputSane(o, tr_text)
       THEN /\ tr_llm' = "rejected"
            /\ tr_result' = NoneVal
            /\ tr_pc' = "mt"
            /\ tr_i' = 1
            /\ UNCHANGED <<translation_cache, tr_ret>>
       ELSE /\ tr_result' = o
            /\ tr_pc' = "fix"
            /\ UNCHANGED <<tr_llm, tr_i, translation_cache, tr_ret>>
    /\ UNCHANGED <<cfgVars, using_mt_fallback, mt_fallback_message_shown, llm_context_sources,
                   current_display_name, tr_text, hcOnly, tr_hit, provider_calls, ctx_passed,
                   armVars, in_episode, tr_invoked, tr_miss_in_fallback>>

\* _fix_mixed_llm_output returns r: second sanity check, then cache and return
FixReturn(r) ==
    /\ UNCHANGED otherThanDispatcher
    /\ tr_pc = "fix"
    /\ tr_llm_given' = tr_llm_given \cup {r}
    /\ IF SaneAfterFix(r, tr_text)
       THEN /\ llm_context_sources' =
                   ContextAppend(llm_context_sources, tr_text, r, llm_context_count)
            /\ current_display_name' = "LLM"
            /\ translation_cache' = [translation_cache EXCEPT ![tr_text] = r]
            /\ tr_ret' = r
            /\ tr_llm' = "ok"
            /\ tr_pc' = "idle"
            /\ UNCHANGED <<tr_result, tr_i>>
       ELSE /\ tr_llm' = "rejected"
            /\ tr_result' = NoneVal
            /\ tr_pc' = "mt"
            /\ tr_i' = 1
            /\ UNCHANGED <<llm_context_sources, current_display_name, translation_cache,
                           tr_ret>>
    /\ UNCHANGED <<cfgVars, using_mt_fallback, mt_fallback_message_shown,
                   tr_text, hcOnly, tr_hit, provider_calls, ctx_passed, armVars, in_episode,
                   tr_invoked, tr_miss_in_fallback>>

\* MT provider number tr_i answers with a translation
MtAnswer ==
    /\ UNCHANGED otherThanDispatcher
    /\ tr_pc = "mt"
    /\ LET name == MtNames[tr_i]
           r == MtVal(name)
           announce == use_large_model /\ ~mt_fallback_message_shown
       IN  /\ current_display_name' = name
           /\ translation_cache' = [translation_cache EXCEPT ![tr_text] = r]
           /\ tr_ret' = r
           /\ tr_pc' = "idle"
           /\ IF use_large_model
              THEN /\ llm_context_sources' =
                          ContextAppend(llm_context_sources, tr_text, r, llm_context_count)
                   /\ mt_fallback_message_shown' = TRUE
                   /\ switch_since_arm' = switch_since_arm + (IF announce THEN 1 ELSE 0)
                   /\ in_episode' = TRUE
              ELSE UNCHANGED <<llm_context_sources, mt_fallback_message_shown, armVars,
                               in_episode>>
    /\ UNCHANGED <<cfgVars, using_mt_fallback, tr_text, tr_result,
                   tr_i, hcOnly, tr_llm, tr_llm_given, tr_hit, provider_calls, ctx_passed,
                   tr_invoked, tr_miss_in_fallback>>

\* MT provider number tr_i returns nothing or raises: next provider, or the
\* placeholder after the last one
MtFail ==
    /\ UNCHANGED otherThanDispatcher
    /\ tr_pc = "mt"
    /\ IF tr_i < Len(MtNames)
       THEN /\ tr_i' = tr_i + 1
            /\ UNCHANGED <<translation_cache, tr_ret, tr_pc>>
       ELSE /\ FailTail
            /\ UNCHANGED tr_i
    /\ UNCHANGED <<cfgVars, using_mt_fallback, mt_fallback_message_shown, llm_context_sources,
                   current_display_name, tr_text,
                   tr_result, hcOnly, tr_llm, tr_llm_given, tr_hit, provider_calls, ctx_passed,
                   armVars, in_episode, tr_invoked, tr_miss_in_fallback>>

(***************************************************************************)
(* Dispatcher: llm_reconnect_thread                                        *)
(***************************************************************************)
trOnly == <<translation_cache, llm_context_sources, current_display_name,
            tr_pc, tr_text, tr_result, tr_i, tr_ret, tr_llm,
            tr_llm_given, tr_hit, provider_calls, ctx_passed, armVars, in_episode,
            tr_invoked, tr_miss_in_fallback>>

\* wakes after 30 s and starts the probe _translate_llm("a", timeout=5)
HealthCheckWake ==
    /\ UNCHANGED otherThanDispatcher
    /\ hc_pc = "sleep"
    /\ HealthCheckDue
    /\ hc_pc' = "probe"
    /\ UNCHANGED <<cfgVars, using_mt_fallback, mt_fallback_message_shown,
                   tr_recovered, switch_back_shown, trOnly>>

\* the probe answered with a non-empty string: the flag is cleared and
\* "LLM API reconnecting, switching back to {name}" is added to the status bar
HealthCheckOk ==
    /\ UNCHANGED otherThanDispatcher
    /\ hc_pc = "probe"
    /\ hc_pc' = "sleep"
    /\ using_mt_fallback' = FALSE
    /\ mt_fallback_message_shown' = ShownAfterReconnect
    /\ tr_recovered' = TRUE
    /\ switch_back_shown' = IF switch_back_shown < MaxSwitchBack
                            THEN switch_back_shown + 1 ELSE MaxSwitchBack
    /\ UNCHANGED <<cfgVars, trOnly>>

\* the probe raised or came back empty
HealthCheckFail ==
    /\ UNCHANGED otherThanDispatcher
    /\ hc_pc = "probe"
    /\ hc_pc' = "sleep"
    /\ UNCHANGED <<cfgVars, using_mt_fallback, mt_fallback_message_shown,
                   tr_recovered, switch_back_shown, trOnly>>

NextDispatcher ==
    \/ \E s \in Sources : TranslateCall(s)
    \/ LlmRaise
    \/ \E o \in LlmOutputs : LlmReturn(o)
    \/ \E r \in FixOutcomes(tr_result) : FixReturn(r)
    \/ MtAnswer
    \/ MtFail
    \/ HealthCheckWake
    \/ HealthCheckOk
    \/ HealthCheckFail

(***************************************************************************)
(* Pipeline: recognizer thread -> text_queue -> translation_thread ->      *)
(* translated_queue -> ui_update -> display stack, and the OCR gate.       *)
(* A source value stands for a class of texts _texts_similar holds         *)
(* together; a translation is named by the source it renders (translate    *)
(* answers a repeated source from its cache), Blank is a blank one.        *)
(* The calls into the reconcilers and into translate are drawn from their  *)
(* possible results; the specifications above cover what they do inside.   *)
(***************************************************************************)
\* maxsize of text_queue and translated_queue
QSizeOcr == 5
QSizeAudio == 20
QSize == IF transcription_mode = "audio" THEN QSizeAudio ELSE QSizeOcr

\* max_drain of ui_update
MaxDrainOcr == 1
MaxDrainAudio == 25
MaxDrain == IF transcription_mode = "audio" THEN MaxDrainAudio ELSE MaxDrainOcr

\* _source_similar_to_any keeps entries younger than 15 s, the commit paths
\* keep the last 15 entries
SourceWindowSec == 15
RecentSourcesCap == 15
\* _translation_similar_to_any keeps entries younger than 12 s, ui_update
\* keeps the last 20 entries and a stack of 2
TranslationWindowSec == 12
RecentTranslationsCap == 20
StackCap == 2

\* A translation is a sequence of words, all of WordLen characters, joined
\* by single blanks, no word being part of another; it is written in lower
\* case or with capitals.
WordLen == 10

\* "" and whitespace-only translations
BlankText == [words |-> <<>>, upper |-> FALSE]

\* the translation of source s
Rendering(s) == [words |-> <<s>>, upper |-> FALSE]

\* translations offered to the display
DisplayTexts ==
    {BlankText} \cup
    [words : UNION {[1..n -> Letters] : n \in 1..MaxTextWords}, upper : BOOLEAN]

\* len(text)
TextLen(text) ==
    IF text.words = <<>> THEN 0
    ELSE Len(text.words) * WordLen + (Len(text.words) - 1)

\* text.lower()
Lower(text) == [text EXCEPT !.upper = FALSE]

\* set(w for w in text.split() if len(w) > 1)
WordSet(text) == {text.words[i] : i \in 1..Len(text.words)}

\* (variant: a translation inside the previous one is not looked for)
SubstringRepeat_Never(a_lower, b) == FALSE

\* len(a_lower) >= 20 and len(b) >= 20 and a_lower in b
SubstringRepeat(a_lower, b) ==
    /\ TextLen(a_lower) >= 20
    /\ TextLen(b) >= 20
    /\ Contains(b.words, a_lower.words)

\* one round of the loop of _translation_similar_to_any: the candidate
\* prev makes it return True
SimilarTo(a, prev) ==
    LET a_lower == Lower(a)
        b == Lower(prev)
        words_a == WordSet(a_lower)
        words_b == WordSet(b)
        common == Cardinality(words_a \cap words_b)
    IN  /\ prev # BlankText
        /\ \/ a = prev
           \/ a_lower = b
           \/ SubstringRepeat(a_lower, b)
           \/ /\ words_a # {}
              /\ Cardinality(words_a) >= 8
              /\ Cardinality(words_b) >= 8
              /\ \/ 100 * common >= 65 * Cardinality(words_a)
                 \/ 100 * common >= 65 * Cardinality(words_b)

\* _translation_similar_to_any(a) with the display stack and the recent
\* translations still in the window
TranslationSimilarToAny(a, stack, young) ==
    \/ a = BlankText
    \/ \E i \in 1..Len(stack) : SimilarTo(a, stack[i].tr)
    \/ \E i \in 1..Len(young) : SimilarTo(a, young[i][1])

NoItem == [id |-> 0, src |-> 0, tr |-> BlankText]

\* (variant: the put inserts at the head of the queue)
Enqueue_AtHead(q, x) == <<x>> \o q

\* queue.Queue.put_nowait on a queue that is not full
Enqueue(q, x) == Append(q, x)

\* [(s, ts) for s, ts in entries if now - ts < window]
Younger(entries, now, window) ==
    LET Keep(e) == (now - e[2]) * TickSec < window
    IN  SelectSeq(entries, Keep)

\* any(... for prev, _ in entries), on the classes of similar texts
AnyEntry(entries, x) == \E i \in 1..Len(entries) : entries[i][1] = x

InitPipeline ==
    /\ transcription_mode \in {"ocr", "audio"}
    /\ clock = 0
    /\ ocr_paused = FALSE
    /\ ocr_obstructed = FALSE
    /\ recent_sources = <<>>
    /\ text_queue = <<>>
    /\ translated_queue = <<>>
    /\ display_stack = <<>>
    /\ recent_translations = <<>>
    /\ src_pc = "wait"
    /\ src_item = 0
    /\ tw_pc = "get"
    /\ tw_item = NoItem
    /\ ui_pc = "idle"
    /\ ui_skipped_part = FALSE
    /\ ui_collected = <<>>
    /\ n_put = 0
    /\ put_gap = NoTime
    /\ last_put = [s \in Sources |-> NoTime]
    /\ tq_last = 0
    /\ st_last = 0
    /\ in_order = TRUE
    /\ dropped = {}
    /\ ingest_paused = FALSE

putVars == <<n_put, put_gap, last_put>>
gateVars == <<ocr_paused, ocr_obstructed, ingest_paused>>
workerVars == <<tw_pc, tw_item, translated_queue, tq_last>>
uiVars == <<ui_pc, ui_skipped_part, ui_collected, display_stack, recent_translations, st_last>>

\* time passes
Tick ==
    /\ clock < MaxClock
    /\ clock' = clock + 1
    /\ UNCHANGED <<transcription_mode, gateVars, recent_sources, text_queue, src_pc, src_item,
                   putVars, workerVars, uiVars, in_order, dropped>>
    /\ UNCHANGED otherThanPipeline

\* _put_text_queue(item) succeeded: the item is on text_queue
PutText(q, s) ==
    /\ text_queue' = Enqueue(q, [id |-> n_put + 1, src |-> s, tr |-> BlankText])
    /\ n_put' = n_put + 1
    /\ put_gap' = IF last_put[s] = NoTime THEN NoTime ELSE clock - last_put[s]
    /\ last_put' = [last_put EXCEPT ![s] = clock]

\* A commit path from _source_similar_to_any to the first _put_text_queue:
\* 'remember' is whether the path appends to _recent_sources, 'full' is the
\* position the thread takes when the queue is full.
CommitSource(s, remember, full) ==
    LET young == Younger(recent_sources, clock, SourceWindowSec)
        appended == Append(young, <<s, clock>>)
        capped == IF Len(appended) > RecentSourcesCap
                  THEN SubSeq(appended, Len(appended) - RecentSourcesCap + 1, Len(appended))
                  ELSE appended
    IN  IF AnyEntry(young, s)
        THEN /\ recent_sources' = young
             /\ src_pc' = "wait"
             /\ UNCHANGED <<text_queue, src_item, putVars>>
        ELSE /\ recent_sources' = IF remember THEN capped ELSE young
             /\ IF Len(text_queue) < QSize
                THEN /\ PutText(text_queue, s)
                     /\ src_pc' = "wait"
                     /\ UNCHANGED src_item
                ELSE /\ src_pc' = full
                     /\ src_item' = s
                     /\ UNCHANGED <<text_queue, putVars>>

\* what one pass of ocr_thread finds after ocr.process: nothing to ingest
\* (no text, overlay echo, too many words), a language mismatch, an ingest
\* without commit, or an ingest that commits source src
OcrOutcomes ==
    {[kind |-> k, src |-> 0] : k \in {"skip", "mismatch", "ingest"}}
        \cup {[kind |-> "commit", src |-> s] : s \in Sources}

\* ocr_thread from capture_queue.get to the call of ocr.process
OcrDequeue ==
    /\ transcription_mode = "ocr"
    /\ src_pc = "wait"
    /\ IF ocr_paused
       THEN UNCHANGED <<gateVars, src_pc>>
       ELSE \/ \* mixed content: pause and continue
               /\ ocr_paused' = TRUE
               /\ ocr_obstructed' = TRUE
               /\ UNCHANGED <<src_pc, ingest_paused>>
            \/ /\ src_pc' = "ocr"
               /\ UNCHANGED gateVars
    /\ UNCHANGED <<transcription_mode, clock, recent_sources, text_queue, src_item, putVars,
                   workerVars, uiVars, in_order, dropped>>
    /\ UNCHANGED otherThanPipeline

\* ocr_thread from the return of ocr.process to the end of the pass
OcrAfterProcess(o) ==
    /\ transcription_mode = "ocr"
    /\ src_pc = "ocr"
    /\ o.kind = "commit" => n_put < MaxPuts
    /\ IF o.kind = "skip"
       THEN /\ src_pc' = "wait"
            /\ UNCHANGED <<gateVars, recent_sources, text_queue, src_item, putVars>>
       ELSE IF o.kind = "mismatch"
       THEN /\ ocr_paused' = TRUE
            /\ ocr_obstructed' = TRUE
            /\ src_pc' = "wait"
            /\ UNCHANGED <<ingest_paused, recent_sources, text_queue, src_item, putVars>>
       ELSE /\ ingest_paused' = ocr_paused
            /\ UNCHANGED <<ocr_paused, ocr_obstructed>>
            /\ IF o.kind = "ingest"
               THEN /\ src_pc' = "wait"
                    /\ UNCHANGED <<recent_sources, text_queue, src_item, putVars>>
               ELSE CommitSource(o.src, TRUE, "full")
    /\ UNCHANGED <<transcription_mode, clock, workerVars, uiVars, in_order, dropped>>
    /\ UNCHANGED otherThanPipeline

\* the pass ingests into self.reconciler (small-model mode)
OcrMtResult(o) == ~use_large_model /\ OcrAfterProcess(o)

\* the pass ingests into self.llm_reconciler (large-model mode)
OcrLlmResult(o) == use_large_model /\ OcrAfterProcess(o)

\* audio_transcription_thread finalizes a phrase transcribed as s
AudioFinal(s) ==
    /\ transcription_mode = "audio"
    /\ src_pc = "wait"
    /\ n_put < MaxPuts
    /\ CommitSource(s, TRUE, "full")
    /\ UNCHANGED <<transcription_mode, clock, gateVars, workerVars, uiVars, in_order, dropped>>
    /\ UNCHANGED otherThanPipeline

\* audio_transcription_thread: _audio_reconciler.ingest returns s to send
AudioReconcilerSend(s) ==
    /\ transcription_mode = "audio"
    /\ src_pc = "wait"
    /\ n_put < MaxPuts
    /\ CommitSource(s, FALSE, "full_reconciler")
    /\ UNCHANGED <<transcription_mode, clock, gateVars, workerVars, uiVars, in_order, dropped>>
    /\ UNCHANGED otherThanPipeline

\* except queue.Full: text_queue.get_nowait(), then _put_text_queue(item);
\* on the audio reconciler path the put sits inside the try of the get
TextQueueFull ==
    /\ src_pc \in {"full", "full_reconciler"}
    /\ src_pc' = "wait"
    /\ src_item' = 0
    /\ IF text_queue # <<>>
       THEN /\ PutText(Tail(text_queue), src_item)
            /\ dropped' = dropped \cup {"text_queue"}
       ELSE IF src_pc = "full"
       THEN /\ PutText(text_queue, src_item)
            /\ UNCHANGED dropped
       ELSE UNCHANGED <<text_queue, putVars, dropped>>
    /\ UNCHANGED <<transcription_mode, clock, gateVars, recent_sources, workerVars, uiVars,
                   in_order>>
    /\ UNCHANGED otherThanPipeline

\* _GlobalKeyFilter.eventFilter, Space in OCR mode
SpaceKey ==
    /\ transcription_mode = "ocr"
    /\ ocr_paused' = ~ocr_paused
    /\ ocr_obstructed' = IF ocr_paused THEN FALSE ELSE ocr_obstructed
    /\ UNCHANGED <<transcription_mode, clock, ingest_paused, recent_sources, text_queue,
                   src_pc, src_item, putVars, workerVars, uiVars, in_order, dropped>>
    /\ UNCHANGED otherThanPipeline

\* _GlobalKeyFilter.eventFilter, Enter in OCR mode: _set_ocr_running(True)
\* unless OCR is running
EnterKey ==
    /\ transcription_mode = "ocr"
    /\ ocr_paused
    /\ ocr_paused' = FALSE
    /\ ocr_obstructed' = FALSE
    /\ UNCHANGED <<transcription_mode, clock, ingest_paused, recent_sources, text_queue,
                   src_pc, src_item, putVars, workerVars, uiVars, in_order, dropped>>
    /\ UNCHANGED otherThanPipeline

\* Any commit path at its _put_text_queue(item), the checks before it
\* passed: try the put, on queue.Full take the except branch
PutTextQueue(s) ==
    /\ src_pc = "wait"
    /\ n_put < MaxPuts
    /\ IF Len(text_queue) < QSize
       THEN /\ PutText(text_queue, s)
            /\ UNCHANGED <<src_pc, src_item>>
       ELSE /\ src_pc' = "full"
            /\ src_item' = s
            /\ UNCHANGED <<text_queue, putVars>>
    /\ UNCHANGED <<transcription_mode, clock, gateVars, recent_sources, workerVars, uiVars,
                   in_order, dropped>>
    /\ UNCHANGED otherThanPipeline

\* translation_thread: text_queue.get returned an item
TwGet ==
    /\ tw_pc = "get"
    /\ text_queue # <<>>
    /\ tw_item' = Head(text_queue)
    /\ text_queue' = Tail(text_queue)
    /\ tw_pc' = "translate"
    /\ UNCHANGED <<transcription_mode, clock, gateVars, recent_sources, src_pc, src_item,
                   putVars, translated_queue, tq_last, uiVars, in_order, dropped>>
    /\ UNCHANGED otherThanPipeline

\* the item is on translated_queue
PutTranslated(q, item) ==
    /\ translated_queue' = Enqueue(q, item)
    /\ tq_last' = item.id
    /\ in_order' = (in_order /\ item.id > tq_last)
    /\ tw_pc' = "get"
    /\ tw_item' = NoItem

\* translation_thread: translate returned (a blank text or a rendering of
\* the source), up to the first translated_queue.put_nowait
TwTranslated(blank) ==
    /\ tw_pc = "translate"
    /\ LET item == [tw_item EXCEPT !.tr = IF blank THEN BlankText
                                         ELSE Rendering(tw_item.src)]
       IN  IF Len(translated_queue) < QSize
           THEN /\ PutTranslated(translated_queue, item)
           ELSE /\ tw_pc' = "full"
                /\ tw_item' = item
                /\ UNCHANGED <<translated_queue, tq_last, in_order>>
    /\ UNCHANGED <<transcription_mode, clock, gateVars, recent_sources, text_queue, src_pc,
                   src_item, putVars, uiVars, dropped>>
    /\ UNCHANGED otherThanPipeline

\* except queue.Full: translated_queue.get_nowait(), then put_nowait
TranslatedQueueFull ==
    /\ tw_pc = "full"
    /\ IF translated_queue # <<>>
       THEN /\ PutTranslated(Tail(translated_queue), tw_item)
            /\ dropped' = dropped \cup {"translated_queue"}
       ELSE /\ PutTranslated(translated_queue, tw_item)
            /\ UNCHANGED dropped
    /\ UNCHANGED <<transcription_mode, clock, gateVars, recent_sources, text_queue, src_pc,
                   src_item, putVars, uiVars>>
    /\ UNCHANGED otherThanPipeline

\* ui_update: one translated_queue.get_nowait() of the drain loop
UiGet ==
    /\ translated_queue # <<>>
    /\ Len(ui_collected) < MaxDrain
    /\ ui_collected' = Append(ui_collected, Head(translated_queue))
    /\ translated_queue' = Tail(translated_queue)
    /\ ui_pc' = "drain"
    /\ UNCHANGED <<transcription_mode, clock, gateVars, recent_sources, text_queue, src_pc,
                   src_item, putVars, tw_pc, tw_item, tq_last, display_stack,
                   recent_translations, st_last, ui_skipped_part, in_order, dropped>>
    /\ UNCHANGED otherThanPipeline

\* (variant: the ring is not cut)
CapRing_Unbounded(ring) == ring

\* self._recent_translations[-20:] when the ring holds more than 20
CapRing(ring) ==
    IF Len(ring) > RecentTranslationsCap
    THEN SubSeq(ring, Len(ring) - RecentTranslationsCap + 1, Len(ring))
    ELSE ring

\* while len(self._display_stack) > 2: pop(0) into _recent_translations
RECURSIVE PopOver(_, _, _)
PopOver(stack, ring, now) ==
    IF Len(stack) > StackCap
    THEN PopOver(Tail(stack), Append(ring, <<Head(stack).tr, now>>), now)
    ELSE [stack |-> stack, ring |-> ring]

\* ui_update's loop body for one collected item; st holds the stack, the
\* ring of recent translations, the id of the last append and the order flag
ShowItem(st, it, now) ==
    LET young == Younger(st.ring, now, TranslationWindowSec)
        similar == TranslationSimilarToAny(it.tr, st.stack, young)
        top == IF st.stack = <<>> THEN BlankText ELSE st.stack[Len(st.stack)].tr
        part == /\ Lower(it.tr) # Lower(top)
                /\ Contains(top.words, it.tr.words)
        popped == PopOver(Append(st.stack, it), young, now)
        capped == CapRing(popped.ring)
    IN  IF it.tr = BlankText THEN st
        ELSE IF similar THEN [st EXCEPT !.ring = young, !.part = st.part \/ part]
        ELSE [stack |-> popped.stack, ring |-> capped, last |-> it.id,
              ok |-> (st.ok /\ it.id > st.last), part |-> st.part]

RECURSIVE ShowItems(_, _, _)
ShowItems(items, st, now) ==
    IF items = <<>> THEN st
    ELSE ShowItems(Tail(items), ShowItem(st, Head(items), now), now)

\* ui_update after the drain loop: the collected items go to the stack
UiShow ==
    /\ ui_pc = "drain"
    /\ Len(ui_collected) = MaxDrain \/ translated_queue = <<>>
    /\ \E st \in {ShowItems(ui_collected,
                            [stack |-> display_stack, ring |-> recent_translations,
                             last |-> st_last, ok |-> in_order, part |-> ui_skipped_part],
                            clock)} :
          /\ display_stack' = st.stack
          /\ ui_skipped_part' = st.part
          /\ recent_translations' = st.ring
          /\ st_last' = st.last
          /\ in_order' = st.ok
    /\ ui_collected' = <<>>
    /\ ui_pc' = "idle"
    /\ UNCHANGED <<transcription_mode, clock, gateVars, recent_sources, text_queue, src_pc,
                   src_item, putVars, workerVars, dropped>>
    /\ UNCHANGED otherThanPipeline

\* ui_update finds one translation on translated_queue: the drain loop
\* takes it and the loop body looks at it
UiShowText(text) ==
    /\ ui_pc = "idle"
    /\ translated_queue = <<>>
    /\ st_last < MaxShows
    /\ \E st \in {ShowItem([stack |-> display_stack, ring |-> recent_translations,
                             last |-> st_last, ok |-> in_order, part |-> ui_skipped_part],
                            [id |-> st_last + 1, src |-> 0, tr |-> text], clock)} :
          /\ display_stack' = st.stack
          /\ recent_translations' = st.ring
          /\ st_last' = st.last
          /\ in_order' = st.ok
          /\ ui_skipped_part' = st.part
    /\ UNCHANGED <<transcription_mode, clock, gateVars, recent_sources, text_queue, src_pc,
                   src_item, putVars, workerVars, ui_pc, ui_collected, dropped>>
    /\ UNCHANGED otherThanPipeline

\* the display: translations of any wording reach ui_update, time passes
NextDisplay ==
    \/ Tick
    \/ \E text \in DisplayTexts : UiShowText(text)

\* the recognizer threads and the keys of the UI thread; translation_thread
\* does not take from text_queue
NextIntake ==
    \/ Tick
    \/ OcrDequeue
    \/ \E o \in OcrOutcomes : OcrMtResult(o)
    \/ \E o \in OcrOutcomes : OcrLlmResult(o)
    \/ \E s \in Sources : AudioFinal(s)
    \/ \E s \in Sources : AudioReconcilerSend(s)
    \/ TextQueueFull
    \/ SpaceKey
    \/ EnterKey

\* from the put on text_queue to the display stack, within one tick of the
\* clock
NextPipeline ==
    \/ \E s \in Sources : PutTextQueue(s)
    \/ TextQueueFull
    \/ TwGet
    \/ \E blank \in BOOLEAN : TwTranslated(blank)
    \/ TranslatedQueueFull
    \/ UiGet
    \/ UiShow

(***************************************************************************)
(* The display stack and its readers.  ui_update runs on the UI thread,    *)
(* _ocr_matches_overlay on ocr_thread; neither takes a lock, so the        *)
(* statements of ui_update's loop body are steps of their own here.        *)
(***************************************************************************)
InitOverlay ==
    /\ echo_seen = 0
    /\ overlay_lines = 0
    /\ ui_now = 0

\* list(self._display_stack)[-2:]
DisplayLines(stack) == LastN(stack, 2)

\* the translations that reach ui_update: a blank one, the one appended
\* last once more, or one unlike every translation before it
OfferedTexts ==
    {BlankText, Rendering(st_last + 1)}
        \cup (IF st_last > 0 THEN {Rendering(st_last)} ELSE {})

\* ui_update takes one translation from translated_queue and runs the loop
\* body up to self._display_stack.append; a translation that is blank or
\* similar is skipped and the stack goes to the overlay as it is
UiAppend(text) ==
    /\ ui_pc = "idle"
    /\ translated_queue = <<>>
    /\ st_last < MaxAppends
    /\ ui_now' = clock
    /\ LET young == Younger(recent_translations, clock, TranslationWindowSec)
       IN  IF text = BlankText
           THEN /\ overlay_lines' = Len(DisplayLines(display_stack))
                /\ UNCHANGED <<ui_pc, display_stack, recent_translations, st_last>>
           ELSE IF TranslationSimilarToAny(text, display_stack, young)
           THEN /\ overlay_lines' = Len(DisplayLines(display_stack))
                /\ recent_translations' = young
                /\ UNCHANGED <<ui_pc, display_stack, st_last>>
           ELSE /\ display_stack' =
                       Append(display_stack, [id |-> st_last + 1, src |-> 0, tr |-> text])
                /\ recent_translations' = young
                /\ st_last' = st_last + 1
                /\ ui_pc' = "appended"
                /\ UNCHANGED overlay_lines
    /\ UNCHANGED <<transcription_mode, clock, gateVars, recent_sources, text_queue, src_pc,
                   src_item, putVars, workerVars, ui_skipped_part, ui_collected, in_order,
                   dropped, echo_seen>>
    /\ UNCHANGED otherThanOverlay

\* ui_update from the while loop that pops the stack down to 2 entries to
\* overlay.update_text
UiTrim ==
    /\ ui_pc = "appended"
    /\ \E st \in {PopOver(display_stack, recent_translations, ui_now)} :
          /\ display_stack' = st.stack
          /\ recent_translations' = CapRing(st.ring)
          /\ overlay_lines' = Len(DisplayLines(st.stack))
    /\ ui_pc' = "idle"
    /\ UNCHANGED <<transcription_mode, clock, gateVars, recent_sources, text_queue, src_pc,
                   src_item, putVars, workerVars, ui_skipped_part, ui_collected, st_last,
                   in_order, dropped, echo_seen, ui_now>>
    /\ UNCHANGED otherThanOverlay

\* ocr_thread: _ocr_matches_overlay joins the entries of self._display_stack
OcrMatchesOverlay ==
    /\ transcription_mode = "ocr"
    /\ echo_seen' = Len(display_stack)
    /\ UNCHANGED <<pipeVars, overlay_lines, ui_now>>
    /\ UNCHANGED otherThanOverlay

NextOverlay ==
    \/ \E text \in OfferedTexts : UiAppend(text)
    \/ UiTrim
    \/ OcrMatchesOverlay
    \/ Tick

(***************************************************************************)
(* Status messages.  _add_status_message runs on the worker threads,       *)
(* _get_active_status_messages on the UI thread, without a lock: each      *)
(* statement that reads or writes self._status_messages is a step.         *)
(***************************************************************************)
\* len(self._status_messages) > 6
StatusCap == 6

Writers == 1..NumWriters

\* duration_sec of the calls, in ticks: the messages of 10 s
StatusDurations == {2}

InitStatus ==
    /\ status_messages = <<>>
    /\ add_pc = [w \in Writers |-> "idle"]
    /\ n_added = 0
    /\ sweep_pc = "idle"
    /\ sweep_now = 0
    /\ sweep_kept = <<>>
    /\ delivered_len = 0
    /\ delivered_expired = FALSE

\* [(t, exp, good) for t, exp, good in self._status_messages if exp > now]
NotExpired(messages, now) ==
    LET Keep(exp) == exp > now
    IN  SelectSeq(messages, Keep)

\* _add_status_message: self._status_messages.append(...)
AddStatusAppend(w, duration) ==
    /\ add_pc[w] = "idle"
    /\ n_added < MaxAdds
    /\ status_messages' = Append(status_messages, clock + duration)
    /\ n_added' = n_added + 1
    /\ add_pc' = [add_pc EXCEPT ![w] = "test"]
    /\ UNCHANGED <<sweep_pc, sweep_now, sweep_kept, delivered_len, delivered_expired>>
    /\ UNCHANGED <<pipeVars, otherThanStatus>>

\* _add_status_message: the test of 'while len(self._status_messages) > 6'
AddStatusTest(w) ==
    /\ add_pc[w] = "test"
    /\ add_pc' = [add_pc EXCEPT ![w] = IF Len(status_messages) > StatusCap
                                        THEN "pop" ELSE "idle"]
    /\ UNCHANGED <<status_messages, n_added, sweep_pc, sweep_now, sweep_kept,
                   delivered_len, delivered_expired>>
    /\ UNCHANGED <<pipeVars, otherThanStatus>>

\* _add_status_message: self._status_messages.pop(0); on an empty list it
\* raises IndexError and the call ends
AddStatusPop(w) ==
    /\ add_pc[w] = "pop"
    /\ IF status_messages = <<>>
       THEN /\ add_pc' = [add_pc EXCEPT ![w] = "idle"]
            /\ UNCHANGED status_messages
       ELSE /\ status_messages' = Tail(status_messages)
            /\ add_pc' = [add_pc EXCEPT ![w] = "test"]
    /\ UNCHANGED <<n_added, sweep_pc, sweep_now, sweep_kept, delivered_len,
                   delivered_expired>>
    /\ UNCHANGED <<pipeVars, otherThanStatus>>

\* _get_active_status_messages: now = time.time() and the comprehension
\* over self._status_messages
SweepRead ==
    /\ sweep_pc = "idle"
    /\ sweep_now' = clock
    /\ sweep_kept' = NotExpired(status_messages, clock)
    /\ sweep_pc' = "store"
    /\ UNCHANGED <<status_messages, add_pc, n_added, delivered_len, delivered_expired>>
    /\ UNCHANGED <<pipeVars, otherThanStatus>>

\* _get_active_status_messages: the assignment to self._status_messages
SweepStore ==
    /\ sweep_pc = "store"
    /\ status_messages' = sweep_kept
    /\ sweep_kept' = <<>>
    /\ sweep_pc' = "return"
    /\ UNCHANGED <<add_pc, n_added, sweep_now, delivered_len, delivered_expired>>
    /\ UNCHANGED <<pipeVars, otherThanStatus>>

\* _get_active_status_messages: the returned list, read from
\* self._status_messages again, goes to overlay.set_status_messages
SweepDeliver ==
    /\ sweep_pc = "return"
    /\ delivered_len' = Len(status_messages)
    /\ delivered_expired' = (NotExpired(status_messages, sweep_now) # status_messages)
    /\ sweep_pc' = "idle"
    /\ UNCHANGED <<status_messages, add_pc, n_added, sweep_now, sweep_kept>>
    /\ UNCHANGED <<pipeVars, otherThanStatus>>

\* time passes
StatusTick ==
    /\ clock < MaxStatusClock
    /\ Tick

NextStatus ==
    \/ \E w \in Writers, duration \in StatusDurations : AddStatusAppend(w, duration)
    \/ \E w \in Writers : AddStatusTest(w)
    \/ \E w \in Writers : AddStatusPop(w)
    \/ SweepRead
    \/ SweepStore
    \/ SweepDeliver
    \/ StatusTick

(***************************************************************************)
(* The dedup rings under a stream of sources unlike each other: every      *)
(* source is put on text_queue and every translation reaches the stack.    *)
(***************************************************************************)
\* nothing is on its way from the recognizer to the display
Drained ==
    text_queue = <<>> /\ translated_queue = <<>> /\ tw_pc = "get" /\ ui_pc = "idle"

\* self._recent_sources[-15:] when the ring holds more than 15
CapSources(ring) ==
    IF Len(ring) > RecentSourcesCap
    THEN SubSeq(ring, Len(ring) - RecentSourcesCap + 1, Len(ring))
    ELSE ring

\* ocr_thread's commit path (OCR mode) or audio_transcription_thread's
\* path of finals (audio mode) for a source unlike the recent ones, from
\* _source_similar_to_any to _put_text_queue.  The next source comes when
\* the translation of the one before has been through ui_update.
CommitFresh ==
    /\ src_pc = "wait"
    /\ n_put < MaxRingPuts
    /\ Drained
    /\ LET s == n_put + 1
           young == Younger(recent_sources, clock, SourceWindowSec)
       IN  /\ recent_sources' = CapSources(Append(young, <<s, clock>>))
           /\ text_queue' = Enqueue(text_queue, [id |-> s, src |-> s, tr |-> BlankText])
    /\ n_put' = n_put + 1
    /\ put_gap' = NoTime
    /\ UNCHANGED <<transcription_mode, clock, gateVars, src_pc, src_item, last_put, workerVars,
                   uiVars, in_order, dropped>>
    /\ UNCHANGED otherThanPipeline

\* time passes between two units; a unit is through the pipeline within
\* one tick
RingTick ==
    /\ Drained
    /\ clock < MaxRingClock
    /\ Tick

NextRings ==
    \/ CommitFresh
    \/ TwGet
    \/ TwTranslated(FALSE)
    \/ UiGet
    \/ UiShow
    \/ RingTick

(***************************************************************************)
(* ocr_thread's change detection: has_changed and the forced refresh       *)
(***************************************************************************)
\* self.last_hash = None
NoHash == 0

Hashes == 1..NumHashes

\* 0.5 s, in ticks of 0.25 s
HalfSecond == 2

\* (variant: every frame is recognized)
ForceOcr_Always(elapsed) == TRUE

\* force_ocr = (time.time() - self._last_ocr_time) > 0.5
ForceOcr(elapsed) == elapsed > HalfSecond

\* what ocr.process finds in a frame: no text, text that one of the gates
\* after it drops, or text that goes to a reconciler's ingest
Readings == {"none", "dropped", "ingested"}

NoPass == [taken |-> FALSE, same |-> FALSE, elapsed |-> 0, ran |-> FALSE,
           ingested |-> FALSE]

\* _last_ocr_time = 0 and time.time() is far beyond 0.5
InitHashGate ==
    /\ hg_now = HalfSecond + 1
    /\ last_hash = NoHash
    /\ last_ocr_time = 0
    /\ hg_pass = NoPass

\* has_changed(frame) for a frame with hash h: the returned value
HasChanged(h) == h # last_hash

\* One pass of ocr_thread's loop, dt ticks after the one before: a frame
\* with hash h comes off capture_queue, mc_ok is the result of the mixed
\* content check and reading what ocr.process finds if it runs.
OcrPass(h, dt, mc_ok, reading) ==
    /\ transcription_mode = "ocr"
    /\ hg_now + dt <= MaxGateTime
    /\ hg_now' = hg_now + dt
    /\ LET now == hg_now + dt
           elapsed == now - last_ocr_time
           run == HasChanged(h) \/ ForceOcr(elapsed)
       IN  IF ocr_paused
           THEN /\ hg_pass' = NoPass
                /\ UNCHANGED <<ocr_paused, ocr_obstructed, last_hash, last_ocr_time>>
           ELSE /\ last_hash' = IF HasChanged(h) THEN h ELSE last_hash
                /\ IF run /\ ~mc_ok
                   THEN /\ ocr_paused' = TRUE
                        /\ ocr_obstructed' = TRUE
                        /\ UNCHANGED last_ocr_time
                        /\ hg_pass' = [taken |-> TRUE, same |-> ~HasChanged(h),
                                       elapsed |-> elapsed, ran |-> FALSE,
                                       ingested |-> FALSE]
                   ELSE /\ UNCHANGED <<ocr_paused, ocr_obstructed>>
                        /\ last_ocr_time' = IF run THEN now ELSE last_ocr_time
                        /\ hg_pass' = [taken |-> TRUE, same |-> ~HasChanged(h),
                                       elapsed |-> elapsed, ran |-> run,
                                       ingested |-> run /\ reading = "ingested"]
    /\ UNCHANGED <<transcription_mode, clock, ingest_paused, recent_sources, text_queue,
                   src_pc, src_item, putVars, workerVars, uiVars, in_order, dropped>>
    /\ UNCHANGED otherThanHashGate

NextHashGate ==
    \/ \E h \in Hashes, dt \in 0..MaxDt, mc_ok \in BOOLEAN, reading \in Readings :
          OcrPass(h, dt, mc_ok, reading)
    \/ SpaceKey
    \/ EnterKey

(***************************************************************************)
(* capture_thread's overlap gate and the magnetic snap of ui_update        *)
(***************************************************************************)
\* inset=30, max(10, ...), gap = 10
Inset == 30
MinInner == 10
SnapGap == 10

Min3(a, b, c) == Min2(a, Min2(b, c))

\* the region and the overlay of the worked example, and the placings of
\* the grid around a small region
ExampleRegion == [left |-> 100, top |-> 500, width |-> 800, height |-> 120]
ExampleOverlay == [x |-> 200, y |-> 560, w |-> 400, h |-> 100]
SmallRegion == [left |-> 20, top |-> 20, width |-> 60, height |-> 40]
GridPositions == {20 * k : k \in 0..GridMax}
GridSizes == {25 * k : k \in 1..GridMax}
Regions == {ExampleRegion, SmallRegion}
OverlayRects == {ExampleOverlay} \cup [x : GridPositions, y : GridPositions,
                                        w : GridSizes, h : GridSizes]

\* (variant: the overlay's full rectangle must cover half of the region)
OverlapIsSignificant_Half(region, o) ==
    LET iw == Min2(region.left + region.width, o.x + o.w) - Max2(region.left, o.x)
        ih == Min2(region.top + region.height, o.y + o.h) - Max2(region.top, o.y)
    IN  2 * (Max2(0, iw) * Max2(0, ih)) >= region.width * region.height

\* _overlap_is_significant(region, overlay_rect); for areas that are whole
\* numbers, overlap_area >= capture_area * 0.10 in floating point is
\* 10 * overlap_area >= capture_area
OverlapIsSignificant(region, o) ==
    LET margin == Min3(Inset, o.w \div 3, o.h \div 3)
        ox_in == o.x + margin
        oy_in == o.y + margin
        ow_in == Max2(MinInner, o.w - 2 * margin)
        oh_in == Max2(MinInner, o.h - 2 * margin)
        ix == Max2(region.left, ox_in)
        iy == Max2(region.top, oy_in)
        iw == Min2(region.left + region.width, ox_in + ow_in) - ix
        ih == Min2(region.top + region.height, oy_in + oh_in) - iy
    IN  /\ ~(\/ region.left + region.width <= ox_in
             \/ ox_in + ow_in <= region.left
             \/ region.top + region.height <= oy_in
             \/ oy_in + oh_in <= region.top)
        /\ 10 * (Max2(0, iw) * Max2(0, ih)) >= region.width * region.height

NoIteration == [done |-> FALSE, region |-> SmallRegion, overlay |-> ExampleOverlay,
                significant |-> FALSE, animating |-> FALSE, requested |-> FALSE,
                put |-> FALSE]

InitCapture ==
    /\ cap_region \in Regions
    /\ overlay_rect \in OverlayRects
    /\ allow_overlap \in BOOLEAN
    /\ snap_overlay_requested = FALSE
    /\ snap_animating = FALSE
    /\ snap_target = 0
    /\ capture_queue = 0
    /\ cap_iter = NoIteration

\* the overlap gate at rest
IdleCapture ==
    /\ InitCapture
    /\ cap_region = ExampleRegion
    /\ overlay_rect = ExampleOverlay
    /\ allow_overlap = FALSE

\* One iteration of capture_thread's loop.  'due' is whether the throttle
\* of the hide-capture-show path lets it capture, 'captured' whether
\* cap.capture() returns a frame.
CaptureIteration(due, captured) ==
    LET overlap == OverlapIsSignificant(cap_region, overlay_rect)
        request == overlap /\ ~allow_overlap /\ ~snap_animating
        frame == IF overlap THEN allow_overlap /\ due /\ captured ELSE captured
    IN  /\ snap_overlay_requested' = (snap_overlay_requested \/ request)
        /\ capture_queue' = IF frame THEN 1 ELSE 0
        /\ cap_iter' = [done |-> TRUE, region |-> cap_region, overlay |-> overlay_rect,
                        significant |-> overlap,
                        animating |-> snap_animating, requested |-> request,
                        put |-> frame]
        /\ UNCHANGED <<cap_region, overlay_rect, allow_overlap, snap_animating, snap_target>>
        /\ UNCHANGED otherThanCapture

\* ocr_thread takes the frame from capture_queue
CaptureGet ==
    /\ capture_queue > 0
    /\ capture_queue' = 0
    /\ UNCHANGED <<cap_region, overlay_rect, allow_overlap, snap_overlay_requested,
                   snap_animating, snap_target, cap_iter>>
    /\ UNCHANGED otherThanCapture

\* ui_update starts the snap that was requested: the overlay goes above
\* the region if its centre is above the region's centre, else below
SnapStart ==
    /\ snap_overlay_requested
    /\ ~snap_animating
    /\ snap_overlay_requested' = FALSE
    /\ snap_animating' = TRUE
    /\ snap_target' =
          Max2(0, IF 2 * overlay_rect.y + overlay_rect.h
                        < 2 * cap_region.top + cap_region.height
                  THEN cap_region.top - overlay_rect.h - SnapGap
                  ELSE cap_region.top + cap_region.height + SnapGap)
    /\ UNCHANGED <<cap_region, overlay_rect, allow_overlap, capture_queue, cap_iter>>
    /\ UNCHANGED otherThanCapture

\* the last snap_step moves the overlay to target_y and ends the
\* animation; ui_update caches the new geometry
SnapEnd ==
    /\ snap_animating
    /\ overlay_rect' = [overlay_rect EXCEPT !.y = snap_target]
    /\ snap_animating' = FALSE
    /\ UNCHANGED <<cap_region, allow_overlap, snap_overlay_requested, snap_target,
                   capture_queue, cap_iter>>
    /\ UNCHANGED otherThanCapture

NextCapture ==
    \/ \E due, captured \in BOOLEAN : CaptureIteration(due, captured)
    \/ CaptureGet
    \/ SnapStart
    \/ SnapEnd

(***************************************************************************)
(* translation_thread: the call of translate and the per-provider word     *)
(* counter                                                                 *)
(***************************************************************************)
\* an LLM that answers "Translation Failed" (18 characters, 2 tokens)
LlmSaysFailed == Val("LLM", 18, 2, 1, 0)

\* translated.startswith("Translation Failed"): of the values translate can
\* return, the placeholder and the LLM's answer above begin with the words
StartsWithTranslationFailed(r) == r \in {Placeholder, LlmSaysFailed}

\* _count_words(text) of the modelled sources: CJK text, one word a character
SourceWords(s) == SrcLen(s)

\* the keys the counter can get: the display names translate sets
DisplayNames == {"", "LLM"} \cup {NamesSmall[i] : i \in 1..Len(NamesSmall)}

\* tr_text before translate is entered
NoSource == 0

NoAccount == [done |-> FALSE, src |-> NoSource, ret |-> NoEntry, hit |-> FALSE, added |-> {}]

InitAccounting ==
    /\ session_word_count_by_model = [m \in DisplayNames |-> 0]
    /\ wt_pc = "get"
    /\ wt_text = NoSource
    /\ was_cached = FALSE
    /\ acct_last = NoAccount

\* text_queue.get and 'was_cached = text in self._translation_cache'
WorkerGet(s) ==
    /\ wt_pc = "get"
    /\ tr_pc = "idle"
    /\ wt_pc' = "call"
    /\ wt_text' = s
    /\ was_cached' = (translation_cache[s] # NoEntry)
    /\ tr_text' = NoSource
    /\ UNCHANGED <<session_word_count_by_model, acct_last>>
    /\ UNCHANGED <<cfgVars, translation_cache, using_mt_fallback, mt_fallback_message_shown,
                   llm_context_sources, current_display_name, tr_pc, tr_result, tr_i, hcOnly,
                   tr_ret, tr_llm, tr_llm_given, tr_hit, provider_calls, ctx_passed, armVars,
                   in_episode, tr_invoked, tr_miss_in_fallback>>
    /\ UNCHANGED otherThanAccounting

\* 'translated = self.translate(text)' is entered
WorkerTranslate ==
    /\ wt_pc = "call"
    /\ tr_text = NoSource
    /\ TranslateCall(wt_text)

\* 'if translated and not translated.startswith("Translation Failed") and
\* not was_cached'
Credited(translated, cached) ==
    Truthy(translated) /\ ~StartsWithTranslationFailed(translated) /\ ~cached

\* translate has returned: the counter of _current_display_name gets the
\* source's word count
WorkerAccount ==
    /\ wt_pc = "call"
    /\ tr_text = wt_text
    /\ tr_pc = "idle"
    /\ LET model == current_display_name
           n == SourceWords(wt_text)
           counted == IF Credited(tr_ret, was_cached)
                      THEN [session_word_count_by_model EXCEPT ![model] = @ + n]
                      ELSE session_word_count_by_model
       IN  /\ session_word_count_by_model' = counted
           /\ acct_last' = [done |-> TRUE, src |-> wt_text, ret |-> tr_ret, hit |-> tr_hit,
                            added |-> {<<m, counted[m] - session_word_count_by_model[m]>> :
                                         m \in {k \in DisplayNames :
                                                  counted[k] # session_word_count_by_model[k]}}]
    /\ wt_pc' = "get"
    /\ UNCHANGED <<wt_text, was_cached>>
    /\ UNCHANGED dispVars
    /\ UNCHANGED otherThanAccounting

NextAccounting ==
    \/ \E s \in Sources : WorkerGet(s)
    \/ WorkerTranslate
    \/ LlmRaise
    \/ \E o \in LlmOutputs \cup {LlmSaysFailed} : LlmReturn(o)
    \/ \E r \in FixOutcomes(tr_result) : FixReturn(r)
    \/ MtAnswer
    \/ MtFail
    \/ HealthCheckWake
    \/ HealthCheckOk
    \/ HealthCheckFail
    \/ WorkerAccount

(***************************************************************************)
(* _is_llm_output_sane over candidates of every token count                *)
(***************************************************************************)
\* candidates of t one-letter tokens joined by single spaces, c of them the
\* same token and no other token as frequent, and the dispatcher's answers
Candidates ==
    LlmOutputs \cup
        {Val("LLM", 2 * p[1] - 1, p[1], p[2], 0) :
            p \in {q \in (1..MaxTokens) \X (1..MaxTokens) : q[2] <= q[1]}}

InitSanity ==
    /\ san_result = NoneVal
    /\ san_source = 1
    /\ san_verdict = "unchecked"

\* translate calls _is_llm_output_sane(result, text)
SanityCheck(r, s) ==
    /\ san_result' = r
    /\ san_source' = s
    /\ san_verdict' = IF IsLlmOutputSane(r, s) THEN "sane" ELSE "rejected"
    /\ UNCHANGED otherThanSanity

NextSanity == \E r \in Candidates, s \in Sources : SanityCheck(r, s)

(***************************************************************************)
(* Session log: translation_thread records and flushes, the settings       *)
(* dialog is applied, request_quit flushes and the process ends.           *)
(* A unit is named by its number in commit order; a file is named by its   *)
(* directory and the second its name was stamped with.                     *)
(***************************************************************************)
\* 'if len(self._session_output_buffer) >= 10'
FlushEvery == 10

Dirs == 1..NumDirs
NoPath == <<0, 0>>
Paths == Dirs \X (0..MaxSessClock)

\* what a file holds: nothing yet (it does not exist), zero bytes (opened
\* for writing, nothing written), a JSON document with its entries, or the
\* bytes of two writers on top of each other
NoFile == [state |-> "absent", entries |-> <<>>]
EmptyFile == [state |-> "empty", entries |-> <<>>]
JsonFile(entries) == [state |-> "json", entries |-> entries]
GarbledFile == [state |-> "garbled", entries |-> <<>>]

\* what translate made of a unit: a fresh translation, an answer from the
\* cache, or the placeholder
Outcomes == {"fresh", "cached", "failed"}

NoUnit == [id |-> 0, outcome |-> "failed"]
NoFlush == [done |-> FALSE, path |-> NoPath, entries |-> <<>>, recorded |-> <<>>]

InitSession ==
    /\ session_output_enabled \in BOOLEAN
    /\ session_output_path \in Dirs
    /\ sess_path = NoPath
    /\ session_output_buffer = <<>>
    /\ sess_files = [p \in Paths |-> NoFile]
    /\ sess_now = 0
    /\ sw_pc = "get"
    /\ sw_unit = NoUnit
    /\ sw_file = NoPath
    /\ quit_pc = "run"
    /\ q_file = NoPath
    /\ n_units = 0
    /\ n_skips = 0
    /\ n_applies = 0
    /\ sess_recorded = <<>>
    /\ sess_expected = <<>>
    /\ sess_first_path = NoPath
    /\ sess_last_flush = NoFlush
    /\ sess_disabled = ~session_output_enabled

\* the session log at rest
IdleSession ==
    /\ InitSession
    /\ session_output_enabled = TRUE
    /\ session_output_path = 1

sessHistory == <<n_units, n_skips, n_applies, sess_recorded, sess_expected, sess_first_path,
                 sess_last_flush, sess_disabled>>

\* _flush_session_output: the path is chosen when _session_output_path is
\* None, from the directory setting and the clock
FlushPath == IF sess_path = NoPath THEN <<session_output_path, sess_now>> ELSE sess_path

\* what the close of a flush leaves in its file: its document, or, if
\* another flush wrote the file after this one opened it, possibly the
\* bytes of the two documents on top of each other
Dumped(path) ==
    IF path = NoPath THEN {}
    ELSE IF sess_files[path] = EmptyFile THEN {JsonFile(session_output_buffer)}
    ELSE {JsonFile(session_output_buffer), GarbledFile}

\* translation_thread: text_queue.get and translate(text) have returned
SessionTranslate(outcome) ==
    /\ quit_pc # "exited"
    /\ sw_pc = "get"
    /\ n_units < MaxUnits
    /\ outcome # "fresh" => n_skips < MaxSkips
    /\ n_units' = n_units + 1
    /\ n_skips' = n_skips + (IF outcome = "fresh" THEN 0 ELSE 1)
    /\ sw_unit' = [id |-> n_units + 1, outcome |-> outcome]
    /\ sw_pc' = "translated"
    /\ sess_expected' = IF outcome = "fresh" THEN Append(sess_expected, n_units + 1)
                        ELSE sess_expected
    /\ UNCHANGED <<session_output_enabled, session_output_path, sess_path,
                   session_output_buffer, sess_files, sess_now, sw_file, quit_pc, q_file,
                   n_applies, sess_recorded, sess_first_path, sess_last_flush, sess_disabled>>
    /\ UNCHANGED otherThanSession

\* translation_thread: the entry is appended; from the tenth entry on the
\* flush starts, up to open(path, "w")
SessionRecord ==
    /\ quit_pc # "exited"
    /\ sw_pc = "translated"
    /\ IF sw_unit.outcome = "fresh" /\ session_output_enabled
       THEN /\ session_output_buffer' = Append(session_output_buffer, sw_unit.id)
            /\ sess_recorded' = Append(sess_recorded, sw_unit.id)
            /\ IF Len(session_output_buffer) + 1 >= FlushEvery
               THEN /\ sess_path' = FlushPath
                    /\ sw_file' = FlushPath
                    /\ sess_files' = [sess_files EXCEPT ![FlushPath] = EmptyFile]
                    /\ sw_pc' = "dump"
               ELSE /\ sw_pc' = "get"
                    /\ UNCHANGED <<sess_path, sw_file, sess_files>>
       ELSE /\ sw_pc' = "get"
            /\ UNCHANGED <<session_output_buffer, sess_recorded, sess_path, sw_file,
                           sess_files>>
    /\ UNCHANGED <<session_output_enabled, session_output_path, sess_now, sw_unit, quit_pc,
                   q_file, n_units, n_skips, n_applies, sess_expected, sess_first_path,
                   sess_last_flush, sess_disabled>>
    /\ UNCHANGED otherThanSession

\* translation_thread: json.dump and the close of the file
SessionDump(file) ==
    /\ quit_pc # "exited"
    /\ sw_pc = "dump"
    /\ sess_files' = [sess_files EXCEPT ![sw_file] = file]
    /\ sw_pc' = "get"
    /\ sw_file' = NoPath
    /\ sess_first_path' = IF sess_first_path = NoPath THEN sw_file ELSE sess_first_path
    /\ sess_last_flush' = [done |-> TRUE, path |-> sw_file,
                           entries |-> session_output_buffer, recorded |-> sess_recorded]
    /\ UNCHANGED <<session_output_enabled, session_output_path, sess_path,
                   session_output_buffer, sess_now, sw_unit, quit_pc, q_file, n_units, n_skips,
                   n_applies, sess_recorded, sess_expected, sess_disabled>>
    /\ UNCHANGED otherThanSession

\* the settings dialog is applied: _apply_settings_to_translator
ApplySettings(enabled, dir) ==
    /\ quit_pc = "run"
    /\ n_applies < MaxApplies
    /\ n_applies' = n_applies + 1
    /\ session_output_enabled' = enabled
    /\ session_output_path' = dir
    /\ sess_path' = NoPath
    /\ sess_disabled' = (sess_disabled \/ ~enabled)
    /\ UNCHANGED <<session_output_buffer, sess_files, sess_now, sw_pc, sw_unit, sw_file,
                   quit_pc, q_file, n_units, n_skips, sess_recorded, sess_expected,
                   sess_first_path, sess_last_flush>>
    /\ UNCHANGED otherThanSession

\* request_quit: the flush starts if the log is on and has entries, up to
\* open(path, "w")
RequestQuit ==
    /\ quit_pc = "run"
    /\ IF session_output_enabled /\ session_output_buffer # <<>>
       THEN /\ sess_path' = FlushPath
            /\ q_file' = FlushPath
            /\ sess_files' = [sess_files EXCEPT ![FlushPath] = EmptyFile]
            /\ quit_pc' = "dump"
       ELSE /\ quit_pc' = "closing"
            /\ UNCHANGED <<sess_path, q_file, sess_files>>
    /\ UNCHANGED <<session_output_enabled, session_output_path, session_output_buffer,
                   sess_now, sw_pc, sw_unit, sw_file, sessHistory>>
    /\ UNCHANGED otherThanSession

\* request_quit: json.dump and the close of the file
QuitDump(file) ==
    /\ quit_pc = "dump"
    /\ sess_files' = [sess_files EXCEPT ![q_file] = file]
    /\ quit_pc' = "closing"
    /\ q_file' = NoPath
    /\ sess_first_path' = IF sess_first_path = NoPath THEN q_file ELSE sess_first_path
    /\ sess_last_flush' = [done |-> TRUE, path |-> q_file,
                           entries |-> session_output_buffer, recorded |-> sess_recorded]
    /\ UNCHANGED <<session_output_enabled, session_output_path, sess_path,
                   session_output_buffer, sess_now, sw_pc, sw_unit, sw_file, n_units, n_skips,
                   n_applies, sess_recorded, sess_expected, sess_disabled>>
    /\ UNCHANGED otherThanSession

\* quit_all: app.quit() and sys.exit end the process and its daemon threads
QuitExit ==
    /\ quit_pc = "closing"
    /\ quit_pc' = "exited"
    /\ UNCHANGED <<session_output_enabled, session_output_path, sess_path,
                   session_output_buffer, sess_files, sess_now, sw_pc, sw_unit, sw_file,
                   q_file, sessHistory>>
    /\ UNCHANGED otherThanSession

\* a second passes
SessionTick ==
    /\ quit_pc # "exited"
    /\ sess_now < MaxSessClock
    /\ sess_now' = sess_now + 1
    /\ UNCHANGED <<session_output_enabled, session_output_path, sess_path,
                   session_output_buffer, sess_files, sw_pc, sw_unit, sw_file, quit_pc,
                   q_file, sessHistory>>
    /\ UNCHANGED otherThanSession

NextSession ==
    \/ \E outcome \in Outcomes : SessionTranslate(outcome)
    \/ SessionRecord
    \/ \E file \in Dumped(sw_file) : SessionDump(file)
    \/ \E enabled \in BOOLEAN, dir \in Dirs : ApplySettings(enabled, dir)
    \/ RequestQuit
    \/ \E file \in Dumped(q_file) : QuitDump(file)
    \/ QuitExit
    \/ SessionTick

(***************************************************************************)
(* Worker lifecycle: the loops of start_threads and the quit handler       *)
(***************************************************************************)
\* start_threads in OCR mode: four daemon threads
Workers == {"capture", "ocr", "translation", "reconnect"}

\* TranslatorApp.__init__ sets running; start_threads has started the loops
InitLife ==
    /\ running = TRUE
    /\ lf_quit = "run"
    /\ lf_pc = [w \in Workers |-> "check"]

IdleLife == InitLife

\* `while self.running:` at the head of a worker's loop
LoopCheck(w) ==
    /\ lf_quit /= "exited"
    /\ lf_pc[w] = "check"
    /\ lf_pc' = [lf_pc EXCEPT ![w] = IF running THEN "wait" ELSE "returned"]
    /\ UNCHANGED <<running, lf_quit>>

\* the blocking call of an iteration: a queue get with its timeout
\* (queue.Empty: continue), the capture pacing, or the reconnect thread's
\* sleep(30) followed by `if not self.running: break`
LoopWait(w, got) ==
    /\ lf_quit /= "exited"
    /\ lf_pc[w] = "wait"
    /\ lf_pc' = [lf_pc EXCEPT ![w] =
                    IF w = "reconnect" /\ ~running THEN "returned"
                    ELSE IF got THEN "work" ELSE "check"]
    /\ UNCHANGED <<running, lf_quit>>

\* the rest of the iteration
LoopWork(w) ==
    /\ lf_quit /= "exited"
    /\ lf_pc[w] = "work"
    /\ lf_pc' = [lf_pc EXCEPT ![w] = "check"]
    /\ UNCHANGED <<running, lf_quit>>

\* main.request_quit on the UI thread: stop TTS, flush the session log,
\* close the windows, app.quit(); it assigns nothing to translator.running
QuitRequested ==
    /\ lf_quit = "run"
    /\ lf_quit' = "closing"
    /\ UNCHANGED <<running, lf_pc>>

\* sys.exit(app.exec_()): the interpreter exits and stops the daemon
\* threads wherever they are
ProcessExit ==
    /\ lf_quit = "closing"
    /\ lf_quit' = "exited"
    /\ UNCHANGED <<running, lf_pc>>

NextLife ==
    /\ \/ \E w \in Workers : LoopCheck(w)
       \/ \E w \in Workers, got \in BOOLEAN : LoopWait(w, got)
       \/ \E w \in Workers : LoopWork(w)
       \/ QuitRequested
       \/ ProcessExit
    /\ UNCHANGED otherThanLife

(***************************************************************************)
(* TTS: TTSEngineSubprocess on the UI thread, _tts_subprocess_worker in    *)
(* the child process                                                       *)
(***************************************************************************)
\* multiprocessing.Queue(maxsize=100)
TtsQueueMax == 100

\* the three kinds of item on the queue
SpeakItem(u) == [kind |-> "speak", text |-> u]

StopItem == [kind |-> "stop", text |-> 0]

NoneItem == [kind |-> "none", text |-> 0]

\* TTSEngineSubprocess.__init__: an empty queue, the worker started
InitTts ==
    /\ tts_queue = <<>>
    /\ tts_alive = TRUE
    /\ tts_pc = "get"
    /\ tts_item = NoneItem
    /\ n_speak = 0
    /\ n_stop = 0
    /\ n_stop_seen = 0
    /\ tts_enq_stops = <<>>
    /\ tts_started = <<>>
    /\ tts_dropped = {}

IdleTts == InitTts

ttsHistory == <<n_stop_seen, tts_started, tts_dropped>>

\* TTSEngineSubprocess.speak: blank text and a dead process return at once;
\* a full queue gives up after one second
Speak(blank) ==
    /\ n_speak < MaxUtter
    /\ IF blank \/ ~tts_alive \/ Len(tts_queue) >= TtsQueueMax
       THEN UNCHANGED <<tts_queue, n_speak, tts_enq_stops>>
       ELSE /\ tts_queue' = Append(tts_queue, SpeakItem(n_speak + 1))
            /\ n_speak' = n_speak + 1
            /\ tts_enq_stops' = Append(tts_enq_stops, n_stop)
    /\ UNCHANGED <<tts_alive, tts_pc, tts_item, n_stop, ttsHistory>>

\* TTSEngineSubprocess.stop: put "stop" behind what is queued
Stop ==
    /\ n_stop < MaxStops
    /\ Len(tts_queue) < TtsQueueMax
    /\ tts_queue' = Append(tts_queue, StopItem)
    /\ n_stop' = n_stop + 1
    /\ UNCHANGED <<tts_alive, tts_pc, tts_item, n_speak, tts_enq_stops, ttsHistory>>

\* TTSEngineSubprocess.shutdown: put None, terminate the process and join it
Shutdown ==
    /\ tts_alive
    /\ tts_queue' = Append(tts_queue, NoneItem)
    /\ tts_alive' = FALSE
    /\ UNCHANGED <<tts_pc, tts_item, n_speak, n_stop, tts_enq_stops, ttsHistory>>

\* in_queue.get(timeout=0.3) returned an item: None ends the loop, "stop"
\* calls backend.stop() and starts draining, a speak item with text calls
\* backend.speak
TtsGet ==
    /\ tts_alive
    /\ tts_pc = "get"
    /\ tts_queue /= <<>>
    /\ tts_queue' = Tail(tts_queue)
    /\ tts_item' = Head(tts_queue)
    /\ LET item == Head(tts_queue) IN
        /\ tts_pc' = CASE item.kind = "none" -> "returned"
                       [] item.kind = "stop" -> "drain"
                       [] OTHER -> "speak"
        /\ n_stop_seen' = IF item.kind = "stop" THEN n_stop_seen + 1 ELSE n_stop_seen
        /\ tts_started' = IF item.kind = "speak"
                          THEN Append(tts_started, [u |-> item.text, stops |-> n_stop])
                          ELSE tts_started
    /\ UNCHANGED <<tts_alive, n_speak, n_stop, tts_enq_stops, tts_dropped>>

\* backend.speak returned
TtsSpoken ==
    /\ tts_alive
    /\ tts_pc = "speak"
    /\ tts_pc' = "get"
    /\ UNCHANGED <<tts_queue, tts_alive, tts_item, n_speak, n_stop, tts_enq_stops, ttsHistory>>

\* one in_queue.get_nowait() of the drain loop that follows "stop"
TtsDrainOne ==
    /\ tts_alive
    /\ tts_pc = "drain"
    /\ tts_queue /= <<>>
    /\ tts_queue' = Tail(tts_queue)
    /\ tts_dropped' = IF Head(tts_queue).kind = "speak"
                      THEN tts_dropped \cup {[u |-> Head(tts_queue).text, by |-> n_stop_seen]}
                      ELSE tts_dropped
    /\ UNCHANGED <<tts_alive, tts_pc, tts_item, n_speak, n_stop, n_stop_seen, tts_enq_stops,
                   tts_started>>

\* get_nowait raised on the empty queue: continue
TtsDrainDone ==
    /\ tts_alive
    /\ tts_pc = "drain"
    /\ tts_queue = <<>>
    /\ tts_pc' = "get"
    /\ UNCHANGED <<tts_queue, tts_alive, tts_item, n_speak, n_stop, tts_enq_stops, ttsHistory>>

NextTts ==
    /\ \/ \E blank \in BOOLEAN : Speak(blank)
       \/ Stop
       \/ Shutdown
       \/ TtsGet
       \/ TtsSpoken
       \/ TtsDrainOne
       \/ TtsDrainDone
    /\ UNCHANGED otherThanTts

(***************************************************************************)
(* ocr_thread's dynamic text region and _reset_mixed_content_tracking      *)
(***************************************************************************)
\* boxes are requested while fewer than 8 readings were taken
BoxReadings == 8

\* the region is estimated from the fifth reading on
LearnReadings == 5

\* what ocr.process does with a frame
ProcessOutcomes == {"raise", "blank", "text"}

\* TranslatorApp.__init__: nothing learned; the setting is either way
InitOcr ==
    /\ auto_detect_text_region \in BOOLEAN
    /\ text_region = FALSE
    /\ text_region_readings = 0
    /\ text_region_min_y = 0
    /\ oc_pc = "get"
    /\ rs_pc = "idle"

IdleOcr ==
    /\ auto_detect_text_region = FALSE
    /\ text_region = FALSE
    /\ text_region_readings = 0
    /\ text_region_min_y = 0
    /\ oc_pc = "get"
    /\ rs_pc = "idle"

\* ocr_thread took a frame and tests `self._text_region is not None`
OcrTake ==
    /\ oc_pc = "get"
    /\ oc_pc' = IF auto_detect_text_region /\ text_region THEN "crop" ELSE "process"
    /\ UNCHANGED <<auto_detect_text_region, text_region, text_region_readings,
                   text_region_min_y, rs_pc>>

\* `y_min, y_max = self._text_region`: unpacking None raises TypeError
\* outside every try block, which ends the thread
OcrCrop ==
    /\ oc_pc = "crop"
    /\ oc_pc' = IF text_region THEN "process" ELSE "dead"
    /\ UNCHANGED <<auto_detect_text_region, text_region, text_region_readings,
                   text_region_min_y, rs_pc>>

\* ocr.process inside its try block: an exception continues the loop; a
\* text that came with boxes is appended to the two lists
OcrProcess(outcome) ==
    /\ oc_pc = "process"
    /\ LET need_boxes == auto_detect_text_region /\ ~text_region
                            /\ text_region_readings < BoxReadings
           boxes == need_boxes /\ outcome = "text"
       IN  /\ oc_pc' = IF boxes THEN "count" ELSE "get"
           /\ text_region_min_y' = IF boxes THEN text_region_min_y + 1 ELSE text_region_min_y
    /\ UNCHANGED <<auto_detect_text_region, text_region, text_region_readings, rs_pc>>

\* `self._text_region_readings += 1` and the test against 5
OcrCount ==
    /\ oc_pc = "count"
    /\ text_region_readings' = text_region_readings + 1
    /\ oc_pc' = IF text_region_readings + 1 >= LearnReadings THEN "estimate" ELSE "get"
    /\ UNCHANGED <<auto_detect_text_region, text_region, text_region_min_y, rs_pc>>

\* min(self._text_region_min_y): ValueError on the empty list, outside every
\* try block; otherwise the region is set if it is more than 20 pixels tall
OcrEstimate(tall) ==
    /\ oc_pc = "estimate"
    /\ oc_pc' = IF text_region_min_y = 0 THEN "dead" ELSE "get"
    /\ text_region' = IF text_region_min_y = 0 THEN text_region ELSE tall
    /\ UNCHANGED <<auto_detect_text_region, text_region_readings, text_region_min_y, rs_pc>>

\* _reset_mixed_content_tracking on the UI thread, called by the resume keys
\* and by region_changed: `self._text_region = None`
ResetRegion ==
    /\ rs_pc = "idle"
    /\ text_region' = FALSE
    /\ rs_pc' = "readings"
    /\ UNCHANGED <<auto_detect_text_region, text_region_readings, text_region_min_y, oc_pc>>

\* `self._text_region_readings = 0`
ResetReadings ==
    /\ rs_pc = "readings"
    /\ text_region_readings' = 0
    /\ rs_pc' = "lists"
    /\ UNCHANGED <<auto_detect_text_region, text_region, text_region_min_y, oc_pc>>

\* the two lists are replaced by empty ones
ResetLists ==
    /\ rs_pc = "lists"
    /\ text_region_min_y' = 0
    /\ rs_pc' = "idle"
    /\ UNCHANGED <<auto_detect_text_region, text_region, text_region_readings, oc_pc>>

NextOcr ==
    /\ \/ OcrTake
       \/ OcrCrop
       \/ \E outcome \in ProcessOutcomes : OcrProcess(outcome)
       \/ OcrCount
       \/ \E tall \in BOOLEAN : OcrEstimate(tall)
       \/ ResetRegion
       \/ ResetReadings
       \/ ResetLists
    /\ UNCHANGED otherThanOcr

(***************************************************************************)
(* Newest-wins put: a producer's commit on a text_queue that fills up      *)
(***************************************************************************)
\* a unit is committed on the OCR and audio-final paths ("full": the ring
\* remembers it) or on the audio reconciler path ("full_reconciler")
QueueCommit(path) ==
    /\ src_pc = "wait"
    /\ n_put < MaxQueuePuts
    /\ path = "full_reconciler" => transcription_mode = "audio"
    /\ CommitSource(1, path = "full", path)
    /\ UNCHANGED <<transcription_mode, clock, gateVars, workerVars, uiVars, in_order, dropped>>
    /\ UNCHANGED otherThanPipeline

\* time passes while the ring still holds a young entry
QueueTick ==
    /\ src_pc = "wait"
    /\ clock < MaxQueueClock
    /\ Younger(recent_sources, clock, SourceWindowSec) /= <<>>
    /\ clock' = clock + 1
    /\ UNCHANGED <<transcription_mode, gateVars, recent_sources, text_queue, src_pc, src_item,
                   putVars, workerVars, uiVars, in_order, dropped>>
    /\ UNCHANGED otherThanPipeline

NextNewestWins ==
    \/ \E path \in {"full", "full_reconciler"} : QueueCommit(path)
    \/ QueueTick
    \/ TextQueueFull
    \/ TwGet
    \/ TwTranslated(FALSE)
    \/ TranslatedQueueFull

(***************************************************************************)
(* Specifications                                                          *)
(***************************************************************************)
\* the dispatcher at rest, for the specifications of the other components
IdleDispatcher ==
    /\ InitDispatcher
    /\ use_large_model = FALSE
    /\ llm_context_count = 0

\* the pipeline at rest
IdlePipeline ==
    /\ InitPipeline
    /\ transcription_mode = "ocr"

\* the worker threads and the child processes at rest
IdleProc ==
    /\ IdleLife
    /\ IdleTts
    /\ IdleOcr

\* the overlay, the status bar, the capture gate and the session log at rest
IdlePanel ==
    /\ InitOverlay
    /\ InitStatus
    /\ InitHashGate
    /\ IdleCapture
    /\ InitAccounting
    /\ InitSanity
    /\ IdleSession

IdleShell ==
    /\ IdlePanel
    /\ IdleProc

\* translate and the reconnect thread run; the rest is as constructed
InitSpecDispatcher ==
    InitDispatcher /\ InitReconciler /\ IdlePipeline /\ IdleMerge /\ InitLlmReconciler
        /\ InitAudioReconciler /\ IdleShell

SpecDispatcher == InitSpecDispatcher /\ [][NextDispatcher]_vars

\* the same, with the reconnect thread scheduled fairly (it wakes from its
\* 30 s sleep whenever a probe is due) and an LLM that answers the probe
\* (of the probes issued again and again, one succeeds)
SpecDispatcherFair ==
    /\ InitSpecDispatcher
    /\ [][NextDispatcher]_vars
    /\ WF_vars(HealthCheckWake)
    /\ SF_vars(HealthCheckOk)

\* a StreamingReconciler is fed frames; the rest is as constructed
InitSpecReconciler ==
    IdleDispatcher /\ InitReconciler /\ IdlePipeline /\ IdleMerge /\ InitLlmReconciler
        /\ InitAudioReconciler /\ IdleShell

SpecReconciler == InitSpecReconciler /\ [][NextReconciler]_vars

\* OCR mode with the small or the large model, or audio mode
InitPipelineModes ==
    /\ InitDispatcher
    /\ llm_context_count = 0
    /\ InitPipeline
    /\ transcription_mode = "audio" => ~use_large_model

InitSpecIntake ==
    InitPipelineModes /\ InitReconciler /\ IdleMerge /\ InitLlmReconciler
        /\ InitAudioReconciler /\ IdleShell

SpecIntake == InitSpecIntake /\ [][NextIntake]_vars

\* small-model mode, OCR or audio
InitSpecPipeline ==
    IdleDispatcher /\ InitReconciler /\ InitPipeline /\ IdleMerge /\ InitLlmReconciler
        /\ InitAudioReconciler /\ IdleShell

SpecPipeline == InitSpecPipeline /\ [][NextPipeline]_vars

\* the display stack is fed translations; the rest is as constructed
InitSpecDisplay ==
    IdleDispatcher /\ InitReconciler /\ IdlePipeline /\ IdleMerge /\ InitLlmReconciler
        /\ InitAudioReconciler /\ IdleShell

SpecDisplay == InitSpecDisplay /\ [][NextDisplay]_vars

\* the two merge functions applied to every buffer and frame
InitSpecMerge ==
    IdleDispatcher /\ InitReconciler /\ IdlePipeline /\ InitMerge /\ InitLlmReconciler
        /\ InitAudioReconciler /\ IdleShell

SpecMerge == InitSpecMerge /\ [][NextMerge]_vars

\* an LLMReconciler is fed frames; the rest is as constructed
InitSpecLlmReconciler ==
    IdleDispatcher /\ InitReconciler /\ IdlePipeline /\ IdleMerge /\ InitLlmReconciler
        /\ InitAudioReconciler /\ IdleShell

SpecLlmReconciler == InitSpecLlmReconciler /\ [][NextLlmReconciler]_vars

\* ui_update appends to the display stack while ocr_thread reads it
InitSpecOverlay ==
    IdleDispatcher /\ InitReconciler /\ IdlePipeline /\ IdleMerge /\ InitLlmReconciler
        /\ InitAudioReconciler /\ IdleShell

SpecOverlay == InitSpecOverlay /\ [][NextOverlay]_vars

\* a StreamingReconciler is fed short frames until its stable buffer is full
InitSpecStableBuffer ==
    IdleDispatcher /\ InitReconciler /\ IdlePipeline /\ IdleMerge /\ InitLlmReconciler
        /\ InitAudioReconciler /\ IdleShell

SpecStableBuffer == InitSpecStableBuffer /\ [][NextStableBuffer]_vars

\* the pipeline carries sources unlike each other, in OCR or audio mode
InitSpecRings ==
    IdleDispatcher /\ InitReconciler /\ InitPipeline /\ IdleMerge /\ InitLlmReconciler
        /\ InitAudioReconciler /\ IdleShell

SpecRings == InitSpecRings /\ [][NextRings]_vars

\* ocr_thread takes frames from capture_queue, the user pauses and resumes
InitSpecHashGate ==
    IdleDispatcher /\ InitReconciler /\ IdlePipeline /\ IdleMerge /\ InitLlmReconciler
        /\ InitAudioReconciler /\ IdleShell

SpecHashGate == InitSpecHashGate /\ [][NextHashGate]_vars

\* translation_thread takes sources, translate answers, the counter follows
InitSpecAccounting ==
    InitDispatcher /\ InitReconciler /\ IdlePipeline /\ IdleMerge /\ InitLlmReconciler
        /\ InitAudioReconciler /\ IdleShell

SpecAccounting == InitSpecAccounting /\ [][NextAccounting]_vars

\* _is_llm_output_sane is called with every candidate
InitSpecSanity ==
    IdleDispatcher /\ InitReconciler /\ IdlePipeline /\ IdleMerge /\ InitLlmReconciler
        /\ InitAudioReconciler /\ IdleShell

SpecSanity == InitSpecSanity /\ [][NextSanity]_vars

\* the translation worker records, settings are applied, the user quits
InitSpecSession ==
    IdleDispatcher /\ InitReconciler /\ IdlePipeline /\ IdleMerge /\ InitLlmReconciler
        /\ InitAudioReconciler /\ InitOverlay /\ InitStatus /\ InitHashGate /\ IdleCapture
        /\ InitAccounting /\ InitSanity /\ InitSession /\ IdleProc

SpecSession == InitSpecSession /\ [][NextSession]_vars

\* capture_thread iterates over every placing of the overlay
InitSpecCapture ==
    IdleDispatcher /\ InitReconciler /\ IdlePipeline /\ IdleMerge /\ InitLlmReconciler
        /\ InitAudioReconciler /\ InitOverlay /\ InitStatus /\ InitHashGate /\ InitCapture
        /\ InitAccounting /\ InitSanity /\ IdleSession /\ IdleProc

SpecCapture == InitSpecCapture /\ [][NextCapture]_vars

\* worker threads add status messages while ui_update sweeps them
InitSpecStatus ==
    IdleDispatcher /\ InitReconciler /\ IdlePipeline /\ IdleMerge /\ InitLlmReconciler
        /\ InitAudioReconciler /\ IdleShell

SpecStatus == InitSpecStatus /\ [][NextStatus]_vars

\* an AudioReconciler is fed transcripts; the rest is as constructed
InitSpecAudioReconciler ==
    IdleDispatcher /\ InitReconciler /\ IdlePipeline /\ IdleMerge /\ InitLlmReconciler
        /\ InitAudioReconciler /\ IdleShell

SpecAudioReconciler == InitSpecAudioReconciler /\ [][NextAudioReconciler]_vars

\* the worker loops run and the user quits
InitSpecLife ==
    IdleDispatcher /\ InitReconciler /\ IdlePipeline /\ IdleMerge /\ InitLlmReconciler
        /\ InitAudioReconciler /\ IdlePanel /\ InitLife /\ IdleTts /\ IdleOcr

SpecLife == InitSpecLife /\ [][NextLife]_vars

\* the UI thread speaks and stops while the TTS process works its queue
InitSpecTts ==
    IdleDispatcher /\ InitReconciler /\ IdlePipeline /\ IdleMerge /\ InitLlmReconciler
        /\ InitAudioReconciler /\ IdlePanel /\ IdleLife /\ InitTts /\ IdleOcr

SpecTts == InitSpecTts /\ [][NextTts]_vars

\* the recognizer learns the text region while the UI thread resets it
InitSpecOcr ==
    IdleDispatcher /\ InitReconciler /\ IdlePipeline /\ IdleMerge /\ InitLlmReconciler
        /\ InitAudioReconciler /\ IdlePanel /\ IdleLife /\ IdleTts /\ InitOcr

SpecOcr == InitSpecOcr /\ [][NextOcr]_vars

\* producers commit until text_queue is full while the worker takes items
InitSpecNewestWins ==
    IdleDispatcher /\ InitReconciler /\ InitPipeline /\ IdleMerge /\ InitLlmReconciler
        /\ InitAudioReconciler /\ IdleShell

SpecNewestWins == InitSpecNewestWins /\ [][NextNewestWins]_vars

(***************************************************************************)
(* StreamingReconciler: properties                                         *)
(***************************************************************************)
\* C1: a run of consecutive ingest calls that carry the same non-empty text
\* and that spans at least stability_threshold has exactly one call that
\* returned a commit; later frames of the run do not commit the text again.
C1_ExactlyOneCommitPerRun ==
    /\ (Strip(run_text) # <<>> /\ rec_now - run_start >= StabilityThreshold)
           => run_commits = 1
    /\ Strip(run_text) # <<>> => run_commits <= 1

(***************************************************************************)
(* Pipeline: properties                                                    *)
(***************************************************************************)
\* ids of a sequence of items are strictly increasing
Increasing(items) ==
    \A i, j \in 1..Len(items) : i < j => items[i].id < items[j].id

\* C4: items leave the pipeline stages in the order in which they were put on
\* text_queue (ids count those puts): every put on translated_queue and
\* every append to the display stack carried a larger id than the one before
\* it, and each queue, the drained batch and the stack hold their items in
\* id order, whatever the newest-wins puts dropped.
C4_PipelineKeepsPutOrder ==
    /\ in_order
    /\ Increasing(text_queue)
    /\ Increasing(translated_queue)
    /\ Increasing(ui_collected)
    /\ Increasing(display_stack)
    /\ \A i \in 1..Len(display_stack) : display_stack[i].id <= st_last
    /\ \A i \in 1..Len(translated_queue) : translated_queue[i].id <= tq_last

\* a queue has dropped an item and two items reached the stack in order
C4_Witness ==
    /\ dropped # {}
    /\ Len(display_stack) = 2
    /\ display_stack[1].id < display_stack[2].id
    /\ display_stack[2].id = st_last
    /\ tq_last > st_last

\* C5: no reconciler's ingest is called while _ocr_paused is true.
C5_NoIngestWhilePaused == ~ingest_paused

\* C6: a source is not put on text_queue when the same source was put on it
\* less than 15 seconds before.
C6_NoRepeatedSourceWithinWindow ==
    put_gap # NoTime => put_gap * TickSec >= SourceWindowSec

(***************************************************************************)
(* Dispatcher: properties                                                  *)
(***************************************************************************)
MtBy == {NamesSmall[i] : i \in 1..Len(NamesSmall)}
Returned == tr_pc = "idle"

\* C2: for every source string the provider chain is invoked during at most
\* one translate call; a later call on the same string is answered from the
\* cache, with the cached value and without any provider call, also when
\* the cached value is the 'Translation Failed' placeholder.
C2_ProvidersAtMostOncePerSource ==
    /\ \A s \in Sources : provider_calls[s] <= 1
    /\ (Returned /\ tr_hit) => (~tr_invoked /\ tr_ret = translation_cache[tr_text])

\* a second call on a string whose first call failed on every provider
C2_Witness ==
    /\ Returned
    /\ tr_hit
    /\ tr_ret = Placeholder
    /\ provider_calls[tr_text] = 1

C7_NoLlmWhileInFallback ==
    /\ tr_miss_in_fallback =>
          (tr_llm = "none" /\ tr_llm_given = {} /\ tr_pc \in {"mt", "idle"})
    /\ tr_pc \in {"llm", "fix"} => ~using_mt_fallback

\* a call that started in MT fallback was answered by an MT provider
C7_Witness ==
    /\ tr_miss_in_fallback
    /\ Returned
    /\ tr_ret.by \in MtBy

\* C8: the fallback flag goes from set to cleared only in the step in which
\* the health-check probe succeeds, and a probe is in flight only in
\* large-model mode with the fallback flag set.
C8_FallbackLeftOnlyByHealthCheck ==
    [][/\ (using_mt_fallback /\ ~using_mt_fallback')
             => (hc_pc = "probe" /\ hc_pc' = "sleep" /\ tr_recovered')
       /\ hc_pc' = "probe" => (use_large_model' /\ using_mt_fallback')]_vars

\* a probe has succeeded and cleared the flag
C8_Witness ==
    /\ tr_recovered
    /\ ~using_mt_fallback
    /\ hc_pc = "sleep"
    /\ tr_llm = "exception"

\* C9: "switching to" is surfaced exactly once per transition into MT
\* routing: whenever an episode of MT routing begins after an LLM exception
\* or a sanity rejection (the MT chain answers and the LLM was asked since
\* the MT chain last answered) the message is surfaced, and it is surfaced
\* at no other moment.
C9_OneMessagePerEpisode ==
    [][/\ (in_episode' /\ ~in_episode /\ tr_llm' \in {"exception", "rejected"})
             => switch_since_arm' = switch_since_arm + 1
       /\ switch_since_arm' = switch_since_arm + 1 => (in_episode' /\ ~in_episode)]_vars

\* C10: an LLM output that the sanity check rejects, before or after the
\* repair of mixed output, is not stored in the cache, not returned and not
\* added to the LLM context; the call goes on with the MT chain.
C10_RejectedOutputNeverKept ==
    /\ \A s \in Sources :
          translation_cache[s].by = "LLM" => IsLlmOutputSane(translation_cache[s], s)
    /\ \A i \in 1..Len(llm_context_sources) :
          llm_context_sources[i][2].by = "LLM" =>
              IsLlmOutputSane(llm_context_sources[i][2], llm_context_sources[i][1])
    /\ tr_llm = "rejected" =>
          /\ translation_cache[tr_text] \notin tr_llm_given
          /\ tr_pc = "mt" \/ (Returned /\ tr_ret.by \notin {"LLM"} /\ tr_ret \notin tr_llm_given)

\* an output that passed the first check was rejected after the repair and
\* the call was answered by DeepL
C10_Witness ==
    /\ tr_llm = "rejected"
    /\ Cardinality(tr_llm_given) = 2
    /\ Returned
    /\ tr_ret.by = "DeepL"

\* C11: the stored LLM context never holds more than llm_context_count
\* pairs, for every configured count including 0, and the context handed to
\* an LLM request holds at most llm_context_count pairs.
C11_ContextBoundedByCount ==
    /\ Len(llm_context_sources) <= llm_context_count
    /\ ctx_passed <= llm_context_count

\* C12: in a progressive reveal (frames that each extend the one before,
\* then the final text repeated) the final text is committed exactly once,
\* by the first repeated frame that arrives at least stability_threshold
\* after the final text first appeared, and that commit carries the final
\* text.
C12_RevealCommitsOnceWhenStable ==
    /\ (reveal_len >= 2 /\ run_frames >= 2 /\ rec_now - run_start >= StabilityThreshold)
           => run_commits = 1
    /\ reveal_len >= 2 => run_commits <= 1
    /\ (reveal_len >= 2 /\ rec_ret[1]) => (run_frames >= 2 /\ rec_ret[2] = run_text)

\* C24: after any sequence of ingest and reset calls the stable buffer
\* holds at most 5 entries, every entry is a non-empty text, and a call
\* that commits leaves the unstable buffer empty and both the stability
\* timer and the buffer-start timer cleared.
C24_StableBufferBounded ==
    /\ Len(stable_buffer) <= 5
    /\ \A i \in 1..Len(stable_buffer) : Strip(stable_buffer[i]) # <<>>
    /\ rec_ret[1] => /\ unstable_buffer = <<>>
                     /\ stability_start_time = NoTime
                     /\ unstable_buffer_start_time = NoTime

\* a sixth commit in a row has gone into a stable buffer that was full
C24_Witness ==
    /\ rec_ret[1]
    /\ run_commits > StableCap
    /\ Len(stable_buffer) = StableCap

(***************************************************************************)
(* Merge functions: properties                                             *)
(***************************************************************************)
\* C13: when the last i characters of the buffer equal the first i
\* characters of the new frame (i the largest such in 2..20) and the new
\* frame does not contain the whole buffer, _merge_with_overlap returns
\* old + new[i:].
C13_BoundaryOverlapIsMerged ==
    (/\ mg_mt # NotMerged
     /\ BoundaryOverlap(mg_old, mg_new) > 0
     /\ ~Contains(mg_new, mg_old))
        => mg_mt = mg_old \o Slice(mg_new, BoundaryOverlap(mg_old, mg_new), Len(mg_new))

\* C14: whenever the new frame starts with the old buffer,
\* _merge_with_overlap returns the new frame unchanged: Merge(x, x.y) = x.y,
\* with Merge(x, x) = x and Merge("", x) = x as special cases.
C14_MergeKeepsContinuation ==
    (mg_mt # NotMerged /\ StartsWith(mg_new, mg_old)) => mg_mt = mg_new

\* a one-letter buffer was merged with a three-letter frame that starts
\* with it (too long for the replacement test)
C14_Witness ==
    /\ mg_mt # NotMerged
    /\ Len(mg_old) = 1
    /\ Len(mg_new) = 3
    /\ StartsWith(mg_new, mg_old)
    /\ mg_mt = mg_new

C16_TimeoutCommitsAnyText ==
    (llm_call.called /\ llm_call.aged /\ llm_call.same)
        => (llm_ret = <<TRUE, llm_call.merged>> /\ llm_buffer = <<>>)

\* C16 amended: such a call commits when the merged text has at least two
\* characters; a merged text of one character that is not yet stable is
\* kept in the buffer and the call returns no commit.
C16_TimeoutCommitsTwoCharacters ==
    /\ (llm_call.called /\ llm_call.aged /\ llm_call.same /\ Len(llm_call.merged) >= 2)
          => (llm_ret = <<TRUE, llm_call.merged>> /\ llm_buffer = <<>>)
    /\ (llm_call.called /\ llm_call.aged /\ llm_call.same /\ Len(llm_call.merged) < 2
          /\ ~llm_call.stable)
          => (llm_ret = <<FALSE, <<>>>> /\ llm_buffer = llm_call.merged)

\* a text that changed in this very call was committed by the timeout
C16_Witness ==
    /\ llm_call.called
    /\ llm_call.aged
    /\ llm_call.same
    /\ ~llm_call.stable
    /\ Len(llm_call.merged) >= 2
    /\ llm_ret = <<TRUE, llm_call.merged>>
    /\ llm_buffer = <<>>

(***************************************************************************)
(* AudioReconciler: properties                                             *)
(***************************************************************************)
\* C17: a transcript of at least min_words words that ends in a sentence
\* terminator is sent by the very call that brings it, whatever the elapsed
\* time and the check count; the send is marked final, the buffer is
\* discarded and the period start and the check counter are reset.
C17_SentenceEndSendsAtOnce ==
    (/\ au_call.called
     /\ CountWords(au_call.text) >= MinWords
     /\ au_call.text.last \in SentenceEndings)
        => /\ au_ret = <<TRUE, au_call.text, TRUE>>
           /\ au_buffer = BlankTranscript
           /\ au_period_start = NoTime
           /\ au_check_count = 0

\* the first transcript of a phrase, seven words and a full stop, was sent
C17_Witness ==
    /\ au_call.called
    /\ CountWords(au_call.text) = MinWords
    /\ au_call.text.last = "."
    /\ au_call.elapsed = 0
    /\ au_call.checks = 1
    /\ au_ret = <<TRUE, au_call.text, TRUE>>
    /\ au_check_count = 0

\* C18: a transcript with fewer than min_words words (CJK characters plus
\* Latin tokens) is never sent, whatever the elapsed time, the number of
\* checks and the final punctuation.
C18_NoSendBelowMinWords ==
    /\ au_ret[1] => CountWords(au_ret[2]) >= MinWords
    /\ (au_call.called /\ CountWords(au_call.text) < MinWords) => ~au_ret[1]

\* six words and a full stop, after the period and the checks were used up:
\* not sent
C18_Witness ==
    /\ au_call.called
    /\ CountWords(au_call.text) = MinWords - 1
    /\ au_call.text.last \in SentenceEndings
    /\ au_call.elapsed >= AudioPeriod
    /\ au_call.checks >= NumChecks
    /\ ~au_ret[1]
    /\ au_buffer = au_call.text

\* C19: a transcript of at least min_words words without a terminator is
\* sent exactly when period_sec has elapsed since the first transcript of
\* the phrase or the transcripts of the phrase have reached num_checks;
\* before that the call returns no send.
C19_SendExactlyWhenPeriodOver ==
    (/\ au_call.called
     /\ CountWords(au_call.text) >= MinWords
     /\ au_call.text.last \notin SentenceEndings)
        => (au_ret[1] <=> (au_call.elapsed >= AudioPeriod \/ au_call.checks >= NumChecks))

\* the fourth transcript of the phrase was sent before the period was over
C19_Witness ==
    /\ au_call.called
    /\ CountWords(au_call.text) >= MinWords
    /\ au_call.text.last = "x"
    /\ au_call.elapsed < AudioPeriod
    /\ au_call.checks = NumChecks
    /\ au_ret = <<TRUE, au_call.text, TRUE>>

(***************************************************************************)
(* Display: properties                                                     *)
(***************************************************************************)
\* C20: a translation is never appended to the display stack when,
\* compared case-insensitively, it is a substring of the translation
\* appended just before it and both are at least 20 characters long.  (The
\* stack holds the translations appended last, in the order of the appends.)
C20_NoSubstringRegression ==
    \A i \in 1..(Len(display_stack) - 1) :
        ~(/\ TextLen(display_stack[i + 1].tr) >= 20
          /\ TextLen(display_stack[i].tr) >= 20
          /\ Contains(Lower(display_stack[i].tr).words, Lower(display_stack[i + 1].tr).words))

\* a translation of two words that is a part of the three words appended
\* last was skipped, and the stack still ends with the three words
C20_Witness ==
    /\ ui_skipped_part
    /\ display_stack # <<>>
    /\ Len(display_stack[Len(display_stack)].tr.words) = 3

(***************************************************************************)
(* The display stack and the dedup rings: properties                       *)
(***************************************************************************)
\* C21: the display stack never holds more than 2 translations: not after
\* a UI tick, not in the lines passed to the overlay, and not when
\* ocr_thread's overlay-echo check reads it.
C21_StackAtMostTwo ==
    /\ ui_pc = "idle" => Len(display_stack) <= StackCap
    /\ overlay_lines <= StackCap
    /\ echo_seen <= StackCap

\* C23: both dedup rings stay within 15 entries: the ring of recent
\* sources and the ring of recent translations each hold at most 15 entries
\* after every step of the recognizer, the audio thread and the UI tick.
C23_RingsAtMostFifteen ==
    /\ Len(recent_sources) <= 15
    /\ Len(recent_translations) <= 15

\* C23 (as the code has it): the ring of recent sources holds at most 15
\* entries and the ring of recent translations at most 20; both caps are
\* reached.
C23_RingsWithinTheirCaps ==
    /\ Len(recent_sources) <= RecentSourcesCap
    /\ Len(recent_translations) <= RecentTranslationsCap

\* both rings are full, the translations ring beyond 15 entries
C23_Witness ==
    /\ Len(recent_sources) = RecentSourcesCap
    /\ Len(recent_translations) = RecentTranslationsCap
    /\ st_last > RecentTranslationsCap + StackCap

(***************************************************************************)
(* Status messages: properties                                             *)
(***************************************************************************)
\* C22: the status-message list never holds more than 6 entries once the
\* calls of _add_status_message have returned, whatever the interleaving of
\* the threads that add messages with the UI tick's sweep, and the list
\* delivered to the overlay has at most 6 entries and no expired one.
C22_StatusAtMostSix ==
    /\ (\A w \in Writers : add_pc[w] = "idle") => Len(status_messages) <= StatusCap
    /\ delivered_len <= StatusCap
    /\ ~delivered_expired

(***************************************************************************)
(* ocr_thread's change detection: properties                               *)
(***************************************************************************)
\* C25: a frame whose hash equals the last seen hash is recognized only
\* when more than 0.5 s have passed since the last recognition run;
\* otherwise the pass skips it and nothing of it reaches a reconciler.
C25_SameHashOnlyAfterHalfSecond ==
    /\ (hg_pass.same /\ hg_pass.ran) => hg_pass.elapsed > HalfSecond
    /\ (hg_pass.taken /\ hg_pass.same /\ hg_pass.elapsed <= HalfSecond)
           => (~hg_pass.ran /\ ~hg_pass.ingested /\ last_ocr_time = hg_now - hg_pass.elapsed)
    /\ hg_pass.ingested => hg_pass.ran

\* an unchanged frame has been recognized by the forced refresh and its
\* text ingested
C25_Witness ==
    /\ hg_pass.same
    /\ hg_pass.ran
    /\ hg_pass.ingested
    /\ hg_pass.elapsed = HalfSecond + 1


(***************************************************************************)
(* Properties of the overlap gate                                          *)
(*                                                                         *)
(* The gate as it is described: the overlay shrunk on every side by        *)
(* min(30, width/3, height/3) shares at least a tenth of the region's area *)
(* with the region.  The formulas count lengths in thirds of a pixel and   *)
(* areas in ninths, so that width/3 is exact.                              *)
(***************************************************************************)
\* C26 (as stated): whenever the inset-shrunken overlay rectangle shares at
\* least 10% of the region's area with the OCR region and allow_overlap is
\* off, the capture iteration requests a snap-away and puts no frame on the
\* capture queue; so it does for region (100, 500, 800, 120) and overlay
\* (200, 560, 400, 100).
C26_OverlapRequestsSnapAndSkips ==
    LET region == cap_iter.region
        o == cap_iter.overlay
        inset == Min3(3 * Inset, o.w, o.h)
        x0 == Max2(3 * region.left, 3 * o.x + inset)
        y0 == Max2(3 * region.top, 3 * o.y + inset)
        x1 == Min2(3 * (region.left + region.width), 3 * (o.x + o.w) - inset)
        y1 == Min2(3 * (region.top + region.height), 3 * (o.y + o.h) - inset)
        shrunken == /\ x1 > x0
                    /\ y1 > y0
                    /\ 10 * ((x1 - x0) * (y1 - y0)) >= 9 * (region.width * region.height)
    IN  /\ (cap_iter.done /\ shrunken /\ ~allow_overlap)
              => (cap_iter.requested /\ ~cap_iter.put)
        /\ (cap_iter.done /\ region = ExampleRegion /\ o = ExampleOverlay) => shrunken

\* C26 (amended): such an iteration never puts a frame; it requests the
\* snap-away exactly when no snap animation is running; the worked example
\* is such an overlap.
C26_OverlapSkipsAndRequestsSnapUnlessAnimating ==
    LET region == cap_iter.region
        o == cap_iter.overlay
        inset == Min3(3 * Inset, o.w, o.h)
        x0 == Max2(3 * region.left, 3 * o.x + inset)
        y0 == Max2(3 * region.top, 3 * o.y + inset)
        x1 == Min2(3 * (region.left + region.width), 3 * (o.x + o.w) - inset)
        y1 == Min2(3 * (region.top + region.height), 3 * (o.y + o.h) - inset)
        shrunken == /\ x1 > x0
                    /\ y1 > y0
                    /\ 10 * ((x1 - x0) * (y1 - y0)) >= 9 * (region.width * region.height)
    IN  /\ (cap_iter.done /\ shrunken /\ ~allow_overlap)
              => /\ cap_iter.significant
                 /\ ~cap_iter.put
                 /\ cap_iter.requested <=> ~cap_iter.animating
        /\ (cap_iter.done /\ region = ExampleRegion /\ o = ExampleOverlay) => shrunken

\* the example's first iteration: snap requested, nothing put
C26_Witness ==
    /\ cap_iter.done /\ cap_iter.region = ExampleRegion /\ cap_iter.overlay = ExampleOverlay
    /\ ~allow_overlap /\ cap_iter.significant
    /\ cap_iter.requested /\ ~cap_iter.put /\ snap_overlay_requested /\ capture_queue = 0


(***************************************************************************)
(* Properties of the word counter                                          *)
(***************************************************************************)
\* C27: the per-provider word counter is increased only for a translation
\* that was not served from the cache and is not the "Translation Failed"
\* placeholder, and each such translation adds the word count of its source
\* exactly once, to the counter of the provider that produced it.
C27_CounterFollowsFreshTranslations ==
    acct_last.done =>
        acct_last.added =
            IF ~acct_last.hit /\ acct_last.ret # Placeholder
            THEN {<<acct_last.ret.by, SourceWords(acct_last.src)>>}
            ELSE {}


(***************************************************************************)
(* Properties of the repetition rule                                       *)
(***************************************************************************)
\* C28 (as stated): _is_llm_output_sane rejects every candidate in which
\* some whitespace-delimited token occurs at least 15 times, or at least 8
\* times while making up at least 30% of all tokens, whatever the number of
\* tokens.
C28_RepetitionRejectedAtAnyCount ==
    (/\ san_verdict # "unchecked"
     /\ \/ san_result.top >= 15
        \/ san_result.top >= 8 /\ 10 * san_result.top >= 3 * san_result.tokens)
        => san_verdict = "rejected"

\* C28 (amended): the rule applies to candidates of at least 10 tokens;
\* a non-empty candidate of fewer tokens that is not too long is accepted,
\* however often its tokens repeat.
C28_RepetitionRejectedFromTenTokens ==
    /\ (/\ san_verdict # "unchecked"
        /\ san_result.tokens >= 10
        /\ \/ san_result.top >= 15
           \/ san_result.top >= 8 /\ 10 * san_result.top >= 3 * san_result.tokens)
           => san_verdict = "rejected"
    /\ (/\ san_verdict # "unchecked"
        /\ san_result.tokens \in 1..9
        /\ san_result.chars <= 2000)
           => san_verdict = "sane"

\* nine of thirty tokens are the same one: 30% exactly, rejected
C28_Witness ==
    /\ san_verdict = "rejected"
    /\ san_result.tokens = 30
    /\ san_result.top = 9


(***************************************************************************)
(* Properties of the session log                                           *)
(***************************************************************************)
\* C29: every flush writes the whole session, all entries recorded so far
\* in append order, to one JSON file whose path is chosen at the first
\* flush; every later flush of the session, whatever translations and
\* settings changes came before, writes to that same path.
C29_FlushesKeepOnePath ==
    sess_last_flush.done =>
        /\ sess_last_flush.path = sess_first_path
        /\ sess_last_flush.entries = sess_last_flush.recorded

\* C30: with session output enabled, after the user has stopped the
\* application the session log, reloaded, holds exactly one entry for every
\* unit that was committed and translated during the session, in commit
\* order, in every interleaving of the quit handler's flush with the
\* translation worker.
C30_LogHoldsEveryTranslatedUnit ==
    (quit_pc = "exited" /\ ~sess_disabled /\ sess_expected # <<>>)
        => /\ sess_path # NoPath
           /\ sess_files[sess_path] = JsonFile(sess_expected)

(***************************************************************************)
(* Lifecycle: properties                                                   *)
(***************************************************************************)
\* C31: once the user has requested quit the running flag is cleared, and
\* when the process ends every worker loop has seen the cleared flag at its
\* loop check and returned.
C31_QuitClearsRunningAndLoopsReturn ==
    /\ lf_quit /= "run" => ~running
    /\ lf_quit = "exited" => \A w \in Workers : lf_pc[w] = "returned"

(***************************************************************************)
(* TTS: properties                                                         *)
(***************************************************************************)
\* C32: stop() drops what is queued: an utterance enqueued before a call of
\* stop() is not handed to the backend after that call has returned, so at
\* every backend.speak no stop() has returned since the utterance was
\* enqueued.
C32_NothingQueuedBeforeStopIsSpokenAfterIt ==
    \A i \in DOMAIN tts_started :
        tts_started[i].stops = tts_enq_stops[tts_started[i].u]

\* C40: an utterance enqueued after stop() has returned is not discarded by
\* the worker's handling of that stop: while the process is alive and no
\* stop() has followed the utterance, a drain that removed it belongs to a
\* stop marker enqueued after it.
C40_DrainDropsOnlyWhatPrecedesItsStop ==
    \A d \in tts_dropped :
        tts_alive /\ n_stop = tts_enq_stops[d.u] => tts_enq_stops[d.u] < d.by

(***************************************************************************)
(* Shared collections: properties                                          *)
(***************************************************************************)
\* C33: the translation cache, the per-provider counters, the two dedup
\* rings and the display stack belong to the translation worker and the UI
\* tick: every step that changes one of them is a step of translation_thread
\* or of ui_update, never one of the recognizer's.
C33_CollectionsChangeOnlyInWorkerAndUiSteps ==
    [][(\/ translation_cache' /= translation_cache
        \/ session_word_count_by_model' /= session_word_count_by_model
        \/ recent_sources' /= recent_sources
        \/ recent_translations' /= recent_translations
        \/ display_stack' /= display_stack)
       => (TwGet \/ TwTranslated(FALSE) \/ UiGet \/ UiShow)]_vars

(***************************************************************************)
(* Recognizer: properties                                                  *)
(***************************************************************************)
\* C34: no error ends the recognizer: while running is true ocr_thread is
\* in its loop, whatever ocr.process returned or raised and however the UI
\* thread's reset of the text-region estimator interleaved with it.
C34_RecognizerStaysInItsLoop ==
    running => oc_pc /= "dead"

(***************************************************************************)
(* Newest-wins put: properties                                             *)
(***************************************************************************)
\* C35: the put on a full text_queue never loses the new item: every step
\* that ends a producer's put step, on whichever path and whatever the
\* translation worker has taken meanwhile, leaves the committed unit at the
\* tail of text_queue.
C35_PutStepLeavesTheUnitOnTextQueue ==
    [][src_pc /= "wait" /\ src_pc' = "wait"
       => /\ text_queue' /= <<>>
          /\ text_queue'[Len(text_queue')].src = src_item
          /\ text_queue'[Len(text_queue')].id = n_put + 1]_vars

(***************************************************************************)
(* capture_queue: properties                                               *)
(***************************************************************************)
\* C36: capture_queue holds at most one frame, and a queued frame leaves it
\* only through the recognizer's get or by being replaced: every other step
\* taken on a full queue puts a newly captured frame in place of the old one.
C36_QueuedFrameGivesWayOnlyToANewerOne ==
    [][/\ capture_queue' <= 1
       /\ capture_queue = 1 /\ ~CaptureGet => capture_queue' = 1]_vars

(***************************************************************************)
(* StreamingReconciler: the timeout commit                                 *)
(***************************************************************************)
\* C37: unstable_buffer_start_time is the time of the call that made the
\* unstable buffer non-empty, and every ingest call with non-empty text made
\* at least twice the stability threshold after it returns a commit of the
\* buffer (the frame's text or the buffer merged with it) and leaves the
\* unstable buffer empty, whether or not the frame repeats the one before.
C37_TimeoutCommitsTheBuffer ==
    [][\A frame \in Frames, dt \in 1..MaxDt :
        Ingest(frame, dt) =>
            /\ (unstable_buffer = <<>> /\ unstable_buffer' /= <<>>)
                => unstable_buffer_start_time' = rec_now'
            /\ (unstable_buffer /= <<>> /\ unstable_buffer' /= <<>>)
                => unstable_buffer_start_time' = unstable_buffer_start_time
            /\ (/\ Strip(frame) /= <<>>
                /\ unstable_buffer /= <<>>
                /\ unstable_buffer_start_time /= NoTime
                /\ rec_now' - unstable_buffer_start_time >= 2 * StabilityThreshold)
                => (/\ rec_ret'[1]
                    /\ rec_ret'[2] \in {Strip(frame),
                                        MergeWithOverlap(unstable_buffer, Strip(frame))}
                    /\ rec_ret'[2] /= <<>>
                    /\ unstable_buffer' = <<>>
                    /\ stable_buffer' /= <<>>
                    /\ stable_buffer'[Len(stable_buffer')] = rec_ret'[2])]_vars

\* a call whose frame differs from the one before returned a commit of the
\* merged buffer: the timeout fired on text that was not stable
C37_Witness ==
    /\ rec_ret[1]
    /\ run_frames = 1
    /\ rec_ret[2] /= Strip(run_text)
    /\ unstable_buffer = <<>>

(***************************************************************************)
(* Status messages: the sweep against the adders                           *)
(***************************************************************************)
\* C39: a message added by a worker thread is not lost to the UI tick's
\* sweep: when the sweep stores the list it has built, every entry of
\* _status_messages that has not expired is still in the list, as often as
\* before, and so reaches the list the tick delivers.
C39_SweepKeepsEveryLiveMessage ==
    [][sweep_pc = "store" /\ sweep_pc' = "return"
       => LET Count(messages, exp) ==
                  Cardinality({i \in DOMAIN messages : messages[i] = exp})
          IN  \A i \in DOMAIN status_messages :
                  status_messages[i] > sweep_now
                      => Count(status_messages', status_messages[i])
                             >= Count(status_messages, status_messages[i])]_vars


\* C38: recovery liveness. In large-model mode a dispatcher in MT fallback
\* eventually leaves it, under a fairly scheduled reconnect thread and an
\* LLM that answers the probe; "switching back to {LLM}" is added to the
\* status bar in the step that leaves MT fallback and in no other step, so
\* a recovery has exactly one such message.
C38_FallbackIsLeftAndAnnouncedOnce ==
    /\ (use_large_model /\ using_mt_fallback)
          ~> (~using_mt_fallback /\ switch_back_shown = 1)
    /\ [][(switch_back_shown' > switch_back_shown)
             <=> (using_mt_fallback /\ ~using_mt_fallback')]_vars
    /\ [](using_mt_fallback => switch_back_shown = 0)
    /\ [](switch_back_shown <= 1)

\* the dispatcher is back to Normal after an LLM exception, one message shown
C38_Witness ==
    /\ use_large_model
    /\ ~using_mt_fallback
    /\ switch_back_shown = 1
    /\ tr_llm = "exception"
    /\ tr_pc = "idle"
    /\ hc_pc = "sleep"
    /\ Returned

=============================================================================
